---- MODULE Spec2Model ----
(***************************************************************************)
(* Offline action queue (src/hooks/useOfflineMode.ts) and reward ledger    *)
(* (src/utils/questManager.ts, src/components/QuestsAndBadges.tsx) of the  *)
(* Hindi learning app, as state machines.                                  *)
(*                                                                         *)
(* Scheduling model: JavaScript's single thread.  Every async function is  *)
(* cut at its awaits; one action is one run-to-completion segment between  *)
(* two awaits.  A storage operation takes effect when it is issued (the    *)
(* store serves requests in issue order); the continuation after the await *)
(* is a later segment, unless it only does what no other segment can tell  *)
(* apart from having happened with the write (then it is part of the       *)
(* segment that issues the write).  React re-renders right after a         *)
(* setState, so a callback called from the UI sees the current hook state, *)
(* while a callback captured earlier (a pending timer, a call in flight,   *)
(* the mount-time effect) keeps the state of the render that created it.   *)
(***************************************************************************)
EXTENDS Integers, Sequences, FiniteSets, TLC

(* ------------------------------ bounds -------------------------------- *)
\* queue items that exist in one run (the seeded one included)
MaxActions == 2
\* direct syncWhenOnline calls (Sync button presses, reconnect timers) in one run
MaxCalls == 1
\* handleCorrect chains (taps on "correct") started in one run
MaxChains == 2
\* correct answers given, one after the other, before the run starts
MaxPrior == 3
\* times the quests panel becomes visible in one run
MaxShows == 1
\* addXP calls in one run of the addXP specification
MaxAwards == 2
\* correct answers given in one run of the daily specification
MaxAnswers == 10
\* times the date changes in one run
MaxDays == 1
\* largest value passed to updateDailyStats
MaxValue == 2
\* calls on the memory cache in one run
MaxCacheCalls == 2
\* largest time the clock of the caches reaches, and largest ttl of an entry
MaxNow == 1
\* calls on the persistent cache in one run
MaxStoreCalls == 2
\* questManager calls in one run in which a write fails
MaxFaults == 1

(* ------------------------- program constants --------------------------- *)
\* useOfflineMode.ts:111  maxRetries: 3
MaxRetries == 3

\* performanceService.ts:13  maxMemoryCacheSize = 50
maxMemoryCacheSize == 50

\* the two mounted instances of useOfflineMode: the home screen
\* (unnamed/part_004:73) and the OfflineIndicator it renders (OfflineIndicator.tsx:17)
Inst == {"screen", "indicator"}
\* item types: one that processQueueItem has a case for, and 'auth', which the
\* home screen enqueues (unnamed/part_004:137) and processQueueItem has no case for
Types == {"progress", "auth"}
HandledTypes == {"progress", "completion", "analytics", "profile"}

ActionIds == 1..MaxActions
PassIds == 1..(MaxActions + MaxCalls)

VARIABLES
  net,            \* actual connectivity, as NetInfo reports it
  hook,           \* hook[i]: the React state of instance i (OfflineModeState)
  storedQueue,    \* AsyncStorage[OFFLINE_QUEUE_KEY], parsed
  storedLastSync, \* AsyncStorage[LAST_SYNC_KEY]; 0 is "absent"
  clock,          \* Date.now()
  qa,             \* qa[a]: the queueAction call that creates item a
  pass,           \* pass[p]: one syncWhenOnline call (scheduled, running or done)
  nextId,         \* next item id
  nextCall,       \* next free slot for a direct syncWhenOnline call
  accepted,       \* history: ids whose queueAction call completed
  replayed,       \* history: ids ever passed to processQueueItem
  failCount       \* history: failCount[a] = failed replays of item a so far

qvars == <<net, hook, storedQueue, storedLastSync, clock, qa, pass, nextId,
           nextCall, accepted, replayed, failCount>>

VARIABLES
  xpDoc,        \* storage[XP_STORAGE_KEY], parsed: <<>> (absent) or <<UserXP>>
  questsDoc,    \* storage[QUESTS_STORAGE_KEY], parsed: <<>> (absent) or <<quests>>
  badgesDoc,    \* storage[BADGES_STORAGE_KEY], parsed: <<>> (absent) or <<badges>>
  chain,        \* chain[c]: one handleCorrect call of the flashcard
  nextChain,    \* next chain to start
  comp,         \* React state of the QuestsAndBadges panel, and its loadData call
  shows,        \* times the panel has become visible
  callLog,      \* history: the addXP calls made one at a time (document before, amount)
  xpExpected,   \* history: total XP before the run plus every amount awarded since
  questAwards,  \* history: questAwards[id] = times questManager awarded quest id's reward
  xpRuled,      \* history: level-cost rules every XP document written so far obeys
  badgeAwards   \* history: badgeAwards[id] = times the XP of badge id was awarded

lvars == <<xpDoc, questsDoc, badgesDoc, chain, nextChain, comp, shows, callLog,
           xpExpected, questAwards, xpRuled, badgeAwards>>

VARIABLES
  statsDoc,     \* storage[DAILY_STATS_KEY], parsed: <<>> (absent) or <<DailyStats>>
  today,        \* the date, as a day number (the run starts on day 0); the panel's
                \* local date and the UTC date of the daily stats change together
  answers,      \* correct answers given in this run, one after the other
  lastCall,     \* the last questManager call of this run and what it returned
  failures      \* questManager calls of this run in which a write failed

dvars == <<statsDoc, today, answers, lastCall, failures>>

VARIABLES
  memoryCache,  \* the Map of performanceService, as its entries in insertion order
  now,          \* Date.now() as performanceService reads it
  lastSet,      \* history: lastSet[key] = the latest setMemoryCache of the key
  lastOp        \* history: the last call on the memory cache and what it returned

mvars == <<memoryCache, now, lastSet, lastOp>>

VARIABLES
  store,        \* AsyncStorage as performanceService sees it: store[key] is the text
  pLast         \* history: the last call on the persistent cache and how it ended

pvars == <<store, pLast>>

\* the variables of the caches
cvars == <<mvars, pvars>>

VARIABLES
  xpHistory,    \* the xpHistory of storage[XP_STORAGE_KEY] (<<>> while it is absent)
  compHistory,  \* userXP.xpHistory of the panel's React state
  appendLog,    \* history: every entry pushed onto a written xpHistory, in this order
  histCalls     \* history: number of XP-writing calls followed so far

hvars == <<xpHistory, compHistory, appendLog, histCalls>>

VARIABLES
  callback,     \* NotificationManager.callback: 0 is null, else the callback set
  registered,   \* history: the callbacks passed to setCallback, in order
  received,     \* history: the invocations of callbacks, in order, with their arguments
  shown         \* history: the showNotification calls, in order, with their arguments

nvars == <<callback, registered, received, shown>>

VARIABLES
  attemptIndex, \* the attemptIndex retryDelay is called with
  delayFor,     \* <<>>, or the delays retryDelay returned for attemptIndex and the next
  fetches       \* fetches[q]: one fetch of the query client (a query or a mutation)

rvars == <<attemptIndex, delayFor, fetches>>

VARIABLES
  loads,        \* loads[l]: one loadData call of a usePerformanceCache hook
  fetched,      \* history: fetched[n] = the n-th value a fetcher returned, when, its ttl
  served        \* history: the values passed to setData, with the key and the time

uvars == <<loads, fetched, served>>

\* the variables of the parts that are followed on their own
zvars == <<hvars, nvars, rvars, uvars>>

\* all of these but those of one part
besideHistory == <<nvars, rvars, uvars>>
besideSink == <<hvars, rvars, uvars>>
besideRetry == <<hvars, nvars, uvars>>
besideLoads == <<hvars, nvars, rvars>>

\* the variables of the parts that are neither the queue nor the gamification panel
yvars == <<dvars, cvars, zvars>>

vars == <<qvars, lvars, yvars>>

(* ------------------------------ helpers -------------------------------- *)
Ids(q) == {q[k].id : k \in 1..Len(q)}

IdSeq(q) == [k \in 1..Len(q) |-> q[k].id]

\* s is t with some elements left out, order kept
RECURSIVE IsSubSeq(_, _)
IsSubSeq(s, t) ==
  IF s = <<>> THEN TRUE
  ELSE IF t = <<>> THEN FALSE
  ELSE IF Head(s) = Head(t) THEN IsSubSeq(Tail(s), Tail(t))
  ELSE IsSubSeq(s, Tail(t))

\* useOfflineMode.ts:33-39
InitialState ==
  [isOnline |-> TRUE, syncInProgress |-> FALSE, queueSize |-> 0, lastSyncTime |-> 0]

\* the part of the hook state that queueAction and syncWhenOnline close over
\* (their useCallback dependencies, useOfflineMode.ts:127 and :222)
Closure(st) == [isOnline |-> st.isOnline, syncInProgress |-> st.syncInProgress]

\* useOfflineMode.ts:105-112
NewItem(id, type) == [id |-> id, type |-> type, retryCount |-> 0, maxRetries |-> MaxRetries]

NoItem == [id |-> 0, type |-> "progress", retryCount |-> 0, maxRetries |-> MaxRetries]

FreeQA == [pc |-> "free", snap |-> Closure(InitialState), item |-> NoItem, queue |-> <<>>]

FreePass ==
  [pc |-> "free", inst |-> "screen", src |-> "none", snap |-> Closure(InitialState),
   queue |-> <<>>, idx |-> 0, remaining |-> <<>>, syncedCount |-> 0, log |-> <<>>]

\* a call that has returned
DonePass == [FreePass EXCEPT !.pc = "done"]

(* ------------------------------- Init ---------------------------------- *)
\* The queue survives restarts: at mount it is empty or holds an item a previous
\* session left, with the retry count that session reached.
SeedQueues ==
  {<<>>} \cup {<<[NewItem(1, "progress") EXCEPT !.retryCount = rc]>> :
                 rc \in 0..(MaxRetries - 1)}

QueueAtMount ==
  /\ storedQueue \in SeedQueues
  /\ net = TRUE
  \* after mount: loadLastSyncTime found nothing, updateQueueSize read the queue
  /\ hook = [i \in Inst |-> [InitialState EXCEPT !.queueSize = Len(storedQueue)]]
  /\ storedLastSync = 0
  /\ clock = 1
  /\ qa = [a \in ActionIds |-> FreeQA]
  /\ pass = [p \in PassIds |-> FreePass]
  /\ nextId = Len(storedQueue) + 1
  /\ nextCall = MaxActions + 1
  /\ accepted = Ids(storedQueue)
  /\ replayed = {}
  /\ failCount = [a \in ActionIds |->
                    IF a \in Ids(storedQueue) THEN storedQueue[1].retryCount ELSE 0]

(* ----------------------------- queueAction ----------------------------- *)
\* useOfflineMode.ts:115  queue.push(item)
Pushed(queue, item) == Append(queue, item)

\* useOfflineMode.ts:121  if (state.isOnline && !state.syncInProgress)
SchedulesFlush(snap) == snap.isOnline /\ ~snap.syncInProgress

\* setTimeout(syncWhenOnline, ...): a pending call of the syncWhenOnline of the
\* render whose state is snap
Timer(i, src, snap) == [FreePass EXCEPT !.pc = "timer", !.inst = i, !.src = src, !.snap = snap]

\* useOfflineMode.ts:100-114: the home screen calls queueAction(type, data); the
\* item is built and the read of the stored queue is issued
QueueActionCall(t) ==
  /\ nextId <= MaxActions
  /\ qa' = [qa EXCEPT ![nextId] =
              [pc |-> "read", snap |-> Closure(hook["screen"]),
               item |-> NewItem(nextId, t), queue |-> storedQueue]]
  /\ nextId' = nextId + 1
  /\ UNCHANGED <<net, hook, storedQueue, storedLastSync, clock, pass, nextCall,
                 accepted, replayed, failCount, lvars, yvars>>

\* useOfflineMode.ts:115-123: the read has resolved; push, write the whole queue,
\* and once the write has resolved set queueSize and schedule the flush
QueueActionWrite(a) ==
  /\ qa[a].pc = "read"
  /\ LET q == Pushed(qa[a].queue, qa[a].item) IN
       /\ storedQueue' = q
       /\ hook' = [hook EXCEPT !["screen"].queueSize = Len(q)]
  /\ pass' = IF SchedulesFlush(qa[a].snap)
             THEN [pass EXCEPT ![a] = Timer("screen", "enqueue", qa[a].snap)]
             ELSE pass
  /\ qa' = [qa EXCEPT ![a] = [FreeQA EXCEPT !.pc = "done"]]
  /\ accepted' = accepted \cup {a}
  /\ UNCHANGED <<net, storedLastSync, clock, nextId, nextCall, replayed, failCount, lvars, yvars>>

(* ---------------------------- syncWhenOnline --------------------------- *)
\* useOfflineMode.ts:175  if (!state.isOnline || state.syncInProgress) return
SyncGuardReturns(snap) == ~snap.isOnline \/ snap.syncInProgress

\* useOfflineMode.ts:139-172: the type's case logs and waits 500 ms inside a
\* try whose catch returns false (the server calls are commented out: either
\* outcome); a type with no case returns true at once
ProcessOutcomes(item) == IF item.type \in HandledTypes THEN BOOLEAN ELSE {TRUE}

\* useOfflineMode.ts:199-204: retryCount++, kept while under maxRetries
RetainAfterFailure(remaining, item) ==
  LET failed == [item EXCEPT !.retryCount = item.retryCount + 1] IN
    IF failed.retryCount < failed.maxRetries THEN Append(remaining, failed) ELSE remaining

\* a variant that stamps the last-sync time after every pass
UpdatesLastSyncAlways(syncedCount) == syncedCount >= 0

\* useOfflineMode.ts:212  if (syncedCount > 0)
UpdatesLastSync(syncedCount) == syncedCount > 0

\* a variant that walks the queue from its newest item
LoopItemNewestFirst(queue, idx) == queue[Len(queue) - idx + 1]

\* useOfflineMode.ts:192  for (const item of queue): the idx-th item of the pass
LoopItem(queue, idx) == queue[idx]

\* useOfflineMode.ts:174-182: guard, setState(syncInProgress: true), read issued
SyncStart(p, i, src, snap) ==
  IF SyncGuardReturns(snap)
  THEN /\ pass' = [pass EXCEPT ![p] = DonePass]
       /\ hook' = hook
  ELSE /\ pass' = [pass EXCEPT ![p] = [FreePass EXCEPT !.pc = "read", !.inst = i, !.src = src,
                                                      !.snap = snap, !.queue = storedQueue]]
       /\ hook' = [hook EXCEPT ![i].syncInProgress = TRUE]

\* a pending setTimeout fires (useOfflineMode.ts:122 and :60-62)
TimerFires(p) ==
  /\ pass[p].pc = "timer"
  /\ SyncStart(p, pass[p].inst, pass[p].src, pass[p].snap)
  /\ UNCHANGED <<net, storedQueue, storedLastSync, clock, qa, nextId, nextCall,
                 accepted, replayed, failCount, lvars, yvars>>

\* OfflineIndicator.tsx:87-91: the Sync button exists while queueSize > 0 and is
\* disabled while syncInProgress || !isOnline; :29-35 handleSyncPress
SyncButtonEnabled == 
  /\ hook["indicator"].queueSize > 0
  /\ ~(hook["indicator"].syncInProgress \/ ~hook["indicator"].isOnline)

SyncPress ==
  /\ nextCall <= MaxActions + MaxCalls
  /\ SyncButtonEnabled
  /\ SyncStart(nextCall, "indicator", "button", Closure(hook["indicator"]))
  /\ nextCall' = nextCall + 1
  /\ UNCHANGED <<net, storedQueue, storedLastSync, clock, qa, nextId,
                 accepted, replayed, failCount, lvars, yvars>>

\* useOfflineMode.ts:183-193: the read has resolved; an empty queue returns through
\* finally, otherwise the loop starts with processQueueItem(queue[0])
SyncAfterRead(p) ==
  /\ pass[p].pc = "read"
  /\ IF Len(pass[p].queue) = 0
     THEN /\ pass' = [pass EXCEPT ![p] = DonePass]
          /\ hook' = [hook EXCEPT ![pass[p].inst].syncInProgress = FALSE]
          /\ replayed' = replayed
     ELSE /\ pass' = [pass EXCEPT ![p].pc = "process", ![p].idx = 1]
          /\ hook' = hook
          /\ replayed' = replayed \cup {LoopItem(pass[p].queue, 1).id}
  /\ UNCHANGED <<net, storedQueue, storedLastSync, clock, qa, nextId, nextCall,
                 accepted, failCount, lvars, yvars>>

\* useOfflineMode.ts:192-209: processQueueItem(queue[idx]) has resolved with ok;
\* count or retain, then the next item, or after the last one write the rest back
SyncProcessed(p, ok) ==
  /\ pass[p].pc = "process"
  /\ LET item == LoopItem(pass[p].queue, pass[p].idx)
         rem  == IF ok THEN pass[p].remaining ELSE RetainAfterFailure(pass[p].remaining, item)
         cnt  == IF ok THEN pass[p].syncedCount + 1 ELSE pass[p].syncedCount
         last == pass[p].idx = Len(pass[p].queue)
     IN
       /\ ok \in ProcessOutcomes(item)
       /\ failCount' = IF ok THEN failCount
                       ELSE [failCount EXCEPT ![item.id] = failCount[item.id] + 1]
       /\ pass' = [pass EXCEPT ![p].remaining = rem, ![p].syncedCount = cnt,
                               ![p].log = Append(pass[p].log, [id |-> item.id, ok |-> ok]),
                               ![p].idx = IF last THEN pass[p].idx ELSE pass[p].idx + 1,
                               ![p].pc = IF last THEN "written" ELSE "process"]
       /\ storedQueue' = IF last THEN rem ELSE storedQueue
       /\ replayed' = IF last THEN replayed
                      ELSE replayed \cup {LoopItem(pass[p].queue, pass[p].idx + 1).id}
  /\ UNCHANGED <<net, hook, storedLastSync, clock, qa, nextId, nextCall, accepted, lvars, yvars>>

\* useOfflineMode.ts:210-221 and :81-89: the queue write has resolved; queueSize,
\* then updateLastSyncTime (key and state) if anything was synced, then finally
SyncAfterWrite(p) ==
  /\ pass[p].pc = "written"
  /\ IF UpdatesLastSync(pass[p].syncedCount)
     THEN /\ storedLastSync' = clock
          /\ clock' = clock + 1
          /\ hook' = [hook EXCEPT ![pass[p].inst].queueSize = Len(pass[p].remaining),
                                  ![pass[p].inst].lastSyncTime = clock,
                                  ![pass[p].inst].syncInProgress = FALSE]
     ELSE /\ UNCHANGED <<storedLastSync, clock>>
          /\ hook' = [hook EXCEPT ![pass[p].inst].queueSize = Len(pass[p].remaining),
                                  ![pass[p].inst].syncInProgress = FALSE]
  /\ pass' = [pass EXCEPT ![p] = DonePass]
  /\ UNCHANGED <<net, storedQueue, qa, nextId, nextCall, accepted, replayed, failCount, lvars, yvars>>

(* --------------------------- NetInfo listener -------------------------- *)
\* useOfflineMode.ts:41-68: the effect runs once (deps []), so its listener keeps
\* the state of the first render for good
MountState == InitialState

\* useOfflineMode.ts:51 and :59
ListenerSchedulesSync(isConnected) ==
  LET wasOffline == ~MountState.isOnline IN
    wasOffline /\ isConnected /\ MountState.queueSize > 0

Offset(i) == IF i = "screen" THEN 0 ELSE 1

\* NetInfo reports a state; the listener of every mounted instance runs
NetInfoEvent(isConnected) ==
  LET who == {i \in Inst : ListenerSchedulesSync(isConnected)} IN
    /\ nextCall + Cardinality(who) <= MaxActions + MaxCalls + 1
    /\ net' = isConnected
    /\ hook' = [i \in Inst |-> [hook[i] EXCEPT !.isOnline = isConnected]]
    /\ pass' = [p \in PassIds |->
                  IF \E i \in who : p = nextCall + Offset(i)
                  THEN Timer(CHOOSE i \in who : p = nextCall + Offset(i), "reconnect",
                             Closure(MountState))
                  ELSE pass[p]]
    /\ nextCall' = nextCall + Cardinality(who)
    /\ UNCHANGED <<storedQueue, storedLastSync, clock, qa, nextId,
                   accepted, replayed, failCount, lvars, yvars>>

(* ------------------------------ the queue ------------------------------ *)
NextQueue ==
  \/ \E t \in Types : QueueActionCall(t)
  \/ \E a \in ActionIds : QueueActionWrite(a)
  \/ \E p \in PassIds : TimerFires(p)
  \/ SyncPress
  \/ \E p \in PassIds : SyncAfterRead(p)
  \/ \E p \in PassIds, ok \in BOOLEAN : SyncProcessed(p, ok)
  \/ \E p \in PassIds : SyncAfterWrite(p)
  \/ \E c \in BOOLEAN : NetInfoEvent(c)

(* ------------------- the queue while AsyncStorage fails ---------------- *)
\* useOfflineMode.ts:129-137 getQueuedActions: the parsed queue, or [] from its
\* catch when the read has thrown
GetQueuedActions(stored, readThrows) == IF readThrows THEN <<>> ELSE stored

\* a variant whose catch is not followed by the reset
FinallyKeepsFlag(h, i) == h

\* useOfflineMode.ts:217-221: catch logs; finally setState(syncInProgress: false)
Finally(h, i) == [h EXCEPT ![i].syncInProgress = FALSE]

\* useOfflineMode.ts:114-123: as QueueActionWrite, but the read of the stored queue
\* has thrown inside getQueuedActions
QueueActionReadThrows(a) ==
  /\ qa[a].pc = "read"
  /\ LET q == Pushed(GetQueuedActions(qa[a].queue, TRUE), qa[a].item) IN
       /\ storedQueue' = q
       /\ hook' = [hook EXCEPT !["screen"].queueSize = Len(q)]
  /\ pass' = IF SchedulesFlush(qa[a].snap)
             THEN [pass EXCEPT ![a] = Timer("screen", "enqueue", qa[a].snap)]
             ELSE pass
  /\ qa' = [qa EXCEPT ![a] = [FreeQA EXCEPT !.pc = "done"]]
  /\ accepted' = accepted \cup {a}
  /\ UNCHANGED <<net, storedLastSync, clock, nextId, nextCall, replayed, failCount, lvars, yvars>>

\* useOfflineMode.ts:182-186: the read of the pass has thrown inside
\* getQueuedActions: the queue is [], the pass returns through finally
SyncReadThrows(p) ==
  /\ pass[p].pc = "read"
  /\ Len(GetQueuedActions(pass[p].queue, TRUE)) = 0
  /\ pass' = [pass EXCEPT ![p] = DonePass]
  /\ hook' = Finally(hook, pass[p].inst)
  /\ UNCHANGED <<net, storedQueue, storedLastSync, clock, qa, nextId, nextCall,
                 accepted, replayed, failCount, lvars, yvars>>

\* useOfflineMode.ts:192-209, 217-221: the last processQueueItem has resolved with
\* ok and the write of the remaining items throws: catch, then finally
SyncWriteThrows(p, ok) ==
  /\ pass[p].pc = "process"
  /\ pass[p].idx = Len(pass[p].queue)
  /\ ok \in ProcessOutcomes(LoopItem(pass[p].queue, pass[p].idx))
  /\ failCount' = IF ok THEN failCount
                  ELSE [failCount EXCEPT ![LoopItem(pass[p].queue, pass[p].idx).id] = @ + 1]
  /\ pass' = [pass EXCEPT ![p] = DonePass]
  /\ hook' = Finally(hook, pass[p].inst)
  /\ UNCHANGED <<net, storedQueue, storedLastSync, clock, qa, nextId, nextCall,
                 accepted, replayed, lvars, yvars>>

\* useOfflineMode.ts:210-221 and :81-89: as SyncAfterWrite, but the write of the
\* last-sync time throws inside updateLastSyncTime, whose catch logs
LastSyncWriteThrows(p) ==
  /\ pass[p].pc = "written"
  /\ UpdatesLastSync(pass[p].syncedCount)
  /\ hook' = Finally([hook EXCEPT ![pass[p].inst].queueSize = Len(pass[p].remaining)],
                     pass[p].inst)
  /\ pass' = [pass EXCEPT ![p] = DonePass]
  /\ UNCHANGED <<net, storedQueue, storedLastSync, clock, qa, nextId, nextCall,
                 accepted, replayed, failCount, lvars, yvars>>

\* the steps of one pass once it has started: awaited promises that settle
PassStep(p) ==
  \/ SyncAfterRead(p)
  \/ SyncReadThrows(p)
  \/ \E ok \in BOOLEAN : SyncProcessed(p, ok)
  \/ \E ok \in BOOLEAN : SyncWriteThrows(p, ok)
  \/ SyncAfterWrite(p)
  \/ LastSyncWriteThrows(p)

NextFlush ==
  \/ \E t \in Types : QueueActionCall(t)
  \/ \E a \in ActionIds : QueueActionWrite(a)
  \/ \E a \in ActionIds : QueueActionReadThrows(a)
  \/ \E p \in PassIds : TimerFires(p)
  \/ SyncPress
  \/ \E p \in PassIds : SyncAfterRead(p)
  \/ \E p \in PassIds : SyncReadThrows(p)
  \/ \E p \in PassIds, ok \in BOOLEAN : SyncProcessed(p, ok)
  \/ \E p \in PassIds, ok \in BOOLEAN : SyncWriteThrows(p, ok)
  \/ \E p \in PassIds : SyncAfterWrite(p)
  \/ \E p \in PassIds : LastSyncWriteThrows(p)
  \/ \E c \in BOOLEAN : NetInfoEvent(c)

(* =========================== reward ledger ============================= *)
(* ------------------------------ XP document ---------------------------- *)
\* questManager.ts:228-234
FreshXP == [totalXP |-> 0, level |-> 1, currentLevelXP |-> 0, nextLevelXP |-> 100]

\* questManager.ts:228  xpData ? JSON.parse(xpData) : {fresh}
ReadXP(stored) == IF stored = <<>> THEN FreshXP ELSE stored[1]

\* a variant with "if" for "while": at most one level per call
LevelUpOnce(x) ==
  IF x.currentLevelXP >= x.nextLevelXP
  THEN [x EXCEPT !.currentLevelXP = x.currentLevelXP - x.nextLevelXP,
                 !.level = x.level + 1,
                 !.nextLevelXP = (x.level + 1) * 100]
  ELSE x

\* questManager.ts:240-252  while (currentLevelXP >= nextLevelXP) {...}
RECURSIVE LevelUp(_)
LevelUp(x) ==
  IF x.currentLevelXP >= x.nextLevelXP
  THEN LevelUp([x EXCEPT !.currentLevelXP = x.currentLevelXP - x.nextLevelXP,
                         !.level = x.level + 1,
                         !.nextLevelXP = (x.level + 1) * 100])
  ELSE x

\* questManager.ts:228-252: the document addXP writes, from the stored one it read
AddXP(stored, amount) ==
  LET x == ReadXP(stored) IN
    LevelUp([x EXCEPT !.totalXP = x.totalXP + amount,
                      !.currentLevelXP = x.currentLevelXP + amount])

\* QuestsAndBadges.tsx:223-228
CalculateLevel(totalXP) ==
  [level |-> (totalXP \div 100) + 1, currentLevelXP |-> totalXP % 100, nextLevelXP |-> 100]

\* QuestsAndBadges.tsx:232-247: the document awardXP writes, from the userXP state
\* of the render it was created in
AwardXP(userXP, xp) ==
  LET newTotalXP == userXP.totalXP + xp
      levelInfo == CalculateLevel(newTotalXP)
  IN [totalXP |-> newTotalXP, level |-> levelInfo.level,
      currentLevelXP |-> levelInfo.currentLevelXP, nextLevelXP |-> levelInfo.nextLevelXP]

(* -------------------------------- quests ------------------------------- *)
\* QuestsAndBadges.tsx:70-97: the daily templates, in order (the other templates
\* are never generated: generateDailyQuests filters on type 'daily')
DailyQuests ==
  << [category |-> "study",    target |-> 5, xpReward |-> 50],
     [category |-> "streak",   target |-> 1, xpReward |-> 30],
     [category |-> "progress", target |-> 3, xpReward |-> 75] >>

\* quest ids: the template and the generation (the id ends in Date.now())
QuestKeys == {<<k, g>> : k \in 1..Len(DailyQuests), g \in 0..MaxShows}

\* QuestsAndBadges.tsx:275-281: a quest generated on day `day`; it expires 24 h
\* later, which is a time of the next day
NewQuest(k, gen, day) ==
  [id |-> <<k, gen>>, type |-> "daily", category |-> DailyQuests[k].category,
   target |-> DailyQuests[k].target, xpReward |-> DailyQuests[k].xpReward,
   progress |-> 0, isCompleted |-> FALSE, expires |-> day + 1]

\* QuestsAndBadges.tsx:267-270: the quests of the panel's state that are kept on
\* day `day`
ExistingQuests(quests, day) ==
  SelectSeq(quests, LAMBDA q : q.type # "daily" \/ q.expires = day)

\* QuestsAndBadges.tsx:273-283: the kept quests and a new set of daily quests
UpdatedQuests(quests, gen, day) ==
  ExistingQuests(quests, day) \o [k \in 1..Len(DailyQuests) |-> NewQuest(k, gen, day)]

\* questManager.ts:140  questsData ? JSON.parse(questsData) : []
ReadQuests(stored) == IF stored = <<>> THEN <<>> ELSE stored[1]

Min(a, b) == IF a <= b THEN a ELSE b

\* questManager.ts:146  quest.category === category && !quest.isCompleted
QuestMatches(quest, category) == quest.category = category /\ ~quest.isCompleted

\* questManager.ts:147-151: the quest after progress was added
Progressed(quest, delta) ==
  LET pr == Min(quest.progress + delta, quest.target) IN
    [quest EXCEPT !.progress = pr,
                  !.isCompleted = (pr >= quest.target /\ ~quest.isCompleted)]

\* questManager.ts:145-159: the loop of updateQuestProgress from index k on, up to
\* its next await: the quests as updated so far, and the index of the quest whose
\* completion calls addXP (0: the loop ran to its end)
RECURSIVE QuestLoop(_, _, _, _)
QuestLoop(quests, k, category, delta) ==
  IF k > Len(quests) THEN [quests |-> quests, stop |-> 0]
  ELSE IF QuestMatches(quests[k], category)
       THEN LET q == Progressed(quests[k], delta)
                qs == [quests EXCEPT ![k] = q]
            IN IF q.isCompleted THEN [quests |-> qs, stop |-> k]
               ELSE QuestLoop(qs, k + 1, category, delta)
       ELSE QuestLoop(quests, k + 1, category, delta)

(* -------------------------------- badges ------------------------------- *)
\* QuestsAndBadges.tsx:128-174: availableBadges, in order, none unlocked
AvailableBadges ==
  << [id |-> "first_word",        xpValue |-> 25,   unlocked |-> FALSE],
     [id |-> "word_collector_50", xpValue |-> 150,  unlocked |-> FALSE],
     [id |-> "streak_master_30",  xpValue |-> 500,  unlocked |-> FALSE],
     [id |-> "hindi_scholar",     xpValue |-> 1000, unlocked |-> FALSE],
     [id |-> "social_sharer",     xpValue |-> 50,   unlocked |-> FALSE] >>

\* the badge ids the two switch statements know (QuestsAndBadges.tsx:297-310,
\* questManager.ts:187-205) and the ids of availableBadges
BadgeIds ==
  {AvailableBadges[k].id : k \in 1..Len(AvailableBadges)}
    \cup {"fast_learner", "accuracy_master", "streak_starter", "dedicated_learner"}

\* questManager.ts:173  badgesData ? JSON.parse(badgesData) : []
ReadBadges(stored) == IF stored = <<>> THEN <<>> ELSE stored[1]

\* questManager.ts:175-176: the daily stats checkBadges reads, where the stats
\* document is not followed (the chains of taps).  It is called after
\* updateDailyStats('wordsLearned', 1) of the same trackWordLearned (:36), and on
\* one day every later write of the stats keeps wordsLearned >= 1; the other
\* fields are read only for badges that are not in the stored array
DailyStatsAtCheck ==
  [wordsLearned |-> 1, studyTimeMinutes |-> 0, streak |-> 0, correctAnswers |-> 0,
   totalAnswers |-> 0]

\* questManager.ts:187-205
ManagerShouldUnlock(id, dailyStats) ==
  CASE id = "first_word" -> dailyStats.wordsLearned >= 1
    [] id = "fast_learner" -> dailyStats.wordsLearned >= 10
    [] id = "accuracy_master" ->
         /\ dailyStats.totalAnswers >= 10
         /\ 10 * dailyStats.correctAnswers >= 9 * dailyStats.totalAnswers
    [] id = "streak_starter" -> dailyStats.streak >= 3
    [] id = "dedicated_learner" -> dailyStats.studyTimeMinutes >= 30
    [] OTHER -> FALSE

\* a variant without "if (badge.unlockedAt) continue"
RECURSIVE BadgeLoopUnguarded(_, _, _)
BadgeLoopUnguarded(badges, k, dailyStats) ==
  IF k > Len(badges) THEN [badges |-> badges, stop |-> 0]
  ELSE IF ManagerShouldUnlock(badges[k].id, dailyStats)
       THEN [badges |-> [badges EXCEPT ![k].unlocked = TRUE], stop |-> k]
       ELSE BadgeLoopUnguarded(badges, k + 1, dailyStats)

\* questManager.ts:181-214: the loop of checkBadges from index k on, up to its next
\* await: the badges as updated so far, and the index of the badge whose unlocking
\* calls addXP (0: the loop ran to its end)
RECURSIVE BadgeLoop(_, _, _)
BadgeLoop(badges, k, dailyStats) ==
  IF k > Len(badges) THEN [badges |-> badges, stop |-> 0]
  ELSE IF ~badges[k].unlocked /\ ManagerShouldUnlock(badges[k].id, dailyStats)
       THEN [badges |-> [badges EXCEPT ![k].unlocked = TRUE], stop |-> k]
       ELSE BadgeLoop(badges, k + 1, dailyStats)

(* ----------------------- handleCorrect (flashcard) ---------------------- *)
\* unnamed/part_016:84-92 with questManager.ts:28-83: the ledger calls one tap on
\* "correct" makes, each awaited before the next, as far as they touch quests,
\* badges and XP
HandleCorrect ==
  << [op |-> "quest", category |-> "progress", n |-> 1],  \* trackWordLearned, :39
     [op |-> "badge", category |-> "none",     n |-> 0],  \* trackWordLearned, :44
     [op |-> "xp",    category |-> "none",     n |-> 10], \* trackCorrectAnswer, :62
     [op |-> "quest", category |-> "study",    n |-> 1] >> \* trackStudyTime(1), :78

ChainIds == 1..MaxChains

IdleChain ==
  [pc |-> "idle", op |-> 0, quests |-> <<>>, qi |-> 0, badges |-> <<>>, bi |-> 0,
   xpRead |-> <<>>, amount |-> 0, ret |-> "none"]

DoneChain == [IdleChain EXCEPT !.pc = "done"]

(* ------------------- the ledger before the run starts ------------------- *)
\* updateQuestProgress with nothing else running (questManager.ts:137-168)
RECURSIVE UpdateQuestProgress(_, _, _, _, _)
UpdateQuestProgress(xp, quests, k, category, delta) ==
  LET r == QuestLoop(quests, k, category, delta) IN
    IF r.stop = 0 THEN [xp |-> xp, quests |-> r.quests]
    ELSE UpdateQuestProgress(<<AddXP(xp, r.quests[r.stop].xpReward)>>, r.quests,
                             r.stop + 1, category, delta)

\* checkBadges with nothing else running, once it has read the badges and the
\* daily stats (questManager.ts:178-218): the documents it leaves and the badges
\* it returns
RECURSIVE CheckBadges(_, _, _, _)
CheckBadges(xp, badges, k, dailyStats) ==
  LET r == BadgeLoop(badges, k, dailyStats) IN
    IF r.stop = 0 THEN [xp |-> xp, badges |-> r.badges, unlocked |-> <<>>]
    ELSE LET rest == CheckBadges(<<AddXP(xp, r.badges[r.stop].xpValue)>>, r.badges,
                                 r.stop + 1, dailyStats)
         IN [rest EXCEPT !.unlocked = <<r.badges[r.stop].id>> \o @]

\* the stored documents after the calls of HandleCorrect from the i-th on
RECURSIVE RunOps(_, _)
RunOps(d, i) ==
  IF i > Len(HandleCorrect) THEN d
  ELSE LET o == HandleCorrect[i] IN
    IF o.op = "quest"
    THEN LET r == UpdateQuestProgress(d.xp, ReadQuests(d.quests), 1, o.category, o.n)
         IN RunOps([d EXCEPT !.xp = r.xp, !.quests = <<r.quests>>], i + 1)
    ELSE IF o.op = "badge"
    THEN LET r == CheckBadges(d.xp, ReadBadges(d.badges), 1, DailyStatsAtCheck)
         IN RunOps([d EXCEPT !.xp = r.xp, !.badges = <<r.badges>>], i + 1)
    ELSE RunOps([d EXCEPT !.xp = <<AddXP(d.xp, o.n)>>], i + 1)

\* the panel of a fresh install, as mounted (QuestsAndBadges.tsx:181-189)
MountedComp ==
  [quests |-> <<>>, badges |-> AvailableBadges, xp |-> FreshXP, load |-> "none",
   readQuests |-> <<>>, readBadges |-> <<>>]

\* on a fresh install a guest has opened the panel once (generation 0 of the daily
\* quests, no badge unlocked, no XP document) and then given n correct answers,
\* one after the other
RECURSIVE Prior(_)
Prior(n) ==
  IF n = 0
  THEN [xp |-> <<>>, quests |-> <<UpdatedQuests(MountedComp.quests, 0, 0)>>,
        badges |-> <<AvailableBadges>>]
  ELSE RunOps(Prior(n - 1), 1)

\* the panel's state after that visit: what it generated, and what loadData found
FreshComp == [MountedComp EXCEPT !.quests = UpdatedQuests(MountedComp.quests, 0, 0)]

\* level-cost rules: the ledger's (level L costs 100 * L, questManager.ts:243) and
\* the panel's (every level costs 100, QuestsAndBadges.tsx:224-226)
RECURSIVE CostBelow(_)
CostBelow(level) == IF level <= 1 THEN 0 ELSE (level - 1) * 100 + CostBelow(level - 1)

Obeys(x, rule) ==
  /\ 0 <= x.currentLevelXP
  /\ x.currentLevelXP < x.nextLevelXP
  /\ IF rule = "rising"
     THEN x.nextLevelXP = x.level * 100 /\ x.totalXP = x.currentLevelXP + CostBelow(x.level)
     ELSE x.nextLevelXP = 100 /\ x.totalXP = x.currentLevelXP + (x.level - 1) * 100

RulesObeyed(x) == {rule \in {"rising", "flat"} : Obeys(x, rule)}

LedgerAfter(n) ==
  /\ xpDoc = Prior(n).xp
  /\ questsDoc = Prior(n).quests
  /\ badgesDoc = Prior(n).badges
  /\ chain = [c \in ChainIds |-> IdleChain]
  /\ nextChain = 1
  /\ comp = FreshComp
  /\ shows = 0
  /\ callLog = <<>>
  /\ xpExpected = ReadXP(xpDoc).totalXP
  /\ questAwards = [id \in QuestKeys |->
                      IF \E k \in 1..Len(ReadQuests(questsDoc)) :
                           /\ ReadQuests(questsDoc)[k].id = id
                           /\ ReadQuests(questsDoc)[k].isCompleted
                      THEN 1 ELSE 0]
  /\ xpRuled = IF xpDoc = <<>> THEN {"rising", "flat"} ELSE RulesObeyed(xpDoc[1])
  /\ badgeAwards = [id \in BadgeIds |->
                      IF \E k \in 1..Len(ReadBadges(badgesDoc)) :
                           /\ ReadBadges(badgesDoc)[k].id = id
                           /\ ReadBadges(badgesDoc)[k].unlocked
                      THEN 1 ELSE 0]

(* ------------------------- handleCorrect, running ----------------------- *)
\* a tap on "correct" (unnamed/part_016:84): the chain starts with the SRS update
TapCorrect ==
  /\ nextChain <= MaxChains
  /\ chain' = [chain EXCEPT ![nextChain].pc = "begin", ![nextChain].op = 1]
  /\ nextChain' = nextChain + 1
  /\ UNCHANGED <<xpDoc, questsDoc, badgesDoc, comp, shows, callLog, xpExpected,
                 questAwards, xpRuled, badgeAwards, qvars,
                 yvars>>

\* the previous await of the chain has resolved; the next ledger call starts and
\* issues its read: questManager.ts:139 (quests), :172 (badges) or :227 (XP)
BeginOp(c) ==
  /\ chain[c].pc = "begin"
  /\ IF chain[c].op > Len(HandleCorrect)
     THEN chain' = [chain EXCEPT ![c] = DoneChain]
     ELSE LET o == HandleCorrect[chain[c].op] IN
            IF o.op = "quest"
            THEN chain' = [chain EXCEPT ![c].pc = "loop",
                                        ![c].quests = ReadQuests(questsDoc), ![c].qi = 1]
            ELSE IF o.op = "badge"
            THEN chain' = [chain EXCEPT ![c].pc = "bloop",
                                        ![c].badges = ReadBadges(badgesDoc), ![c].bi = 1]
            ELSE chain' = [chain EXCEPT ![c].pc = "xp", ![c].xpRead = xpDoc,
                                        ![c].amount = o.n, ![c].ret = "begin"]
  /\ UNCHANGED <<xpDoc, questsDoc, badgesDoc, nextChain, comp, shows, callLog,
                 xpExpected, questAwards, xpRuled, badgeAwards, qvars,
                 yvars>>

\* questManager.ts:145-161: the quests read (or the addXP of the last completion)
\* has resolved; the loop runs on to the next completion, where addXP issues its
\* read of the XP document (:156, :227), or to its end, where the quests are written
QuestLoopRuns(c) ==
  /\ chain[c].pc = "loop"
  /\ LET o == HandleCorrect[chain[c].op]
         r == QuestLoop(chain[c].quests, chain[c].qi, o.category, o.n)
     IN IF r.stop = 0
        THEN /\ questsDoc' = <<r.quests>>
             /\ chain' = [chain EXCEPT ![c] = [IdleChain EXCEPT !.pc = "begin",
                                                               !.op = chain[c].op + 1]]
             /\ questAwards' = questAwards
        ELSE /\ questsDoc' = questsDoc
             /\ chain' = [chain EXCEPT ![c].quests = r.quests, ![c].qi = r.stop + 1,
                                       ![c].pc = "xp", ![c].xpRead = xpDoc,
                                       ![c].amount = r.quests[r.stop].xpReward,
                                       ![c].ret = "loop"]
             /\ questAwards' = [questAwards EXCEPT ![r.quests[r.stop].id] = @ + 1]
  /\ UNCHANGED <<xpDoc, badgesDoc, nextChain, comp, shows, callLog, xpExpected, xpRuled, badgeAwards, qvars,
                 yvars>>

\* questManager.ts:175-216: the badges read (or the addXP of the last unlocking)
\* has resolved; the daily stats are read and the loop runs on to the next
\* unlocking, where addXP issues its read of the XP document (:212, :227), or to
\* its end, where the badges are written
BadgeLoopRuns(c) ==
  /\ chain[c].pc = "bloop"
  /\ LET r == BadgeLoop(chain[c].badges, chain[c].bi, DailyStatsAtCheck)
     IN IF r.stop = 0
        THEN /\ badgesDoc' = <<r.badges>>
             /\ chain' = [chain EXCEPT ![c] = [IdleChain EXCEPT !.pc = "begin",
                                                               !.op = chain[c].op + 1]]
             /\ badgeAwards' = badgeAwards
        ELSE /\ badgesDoc' = badgesDoc
             /\ badgeAwards' = [badgeAwards EXCEPT ![r.badges[r.stop].id] = @ + 1]
             /\ chain' = [chain EXCEPT ![c].badges = r.badges, ![c].bi = r.stop + 1,
                                       ![c].pc = "xp", ![c].xpRead = xpDoc,
                                       ![c].amount = r.badges[r.stop].xpValue,
                                       ![c].ret = "bloop"]
  /\ UNCHANGED <<xpDoc, questsDoc, nextChain, comp, shows, callLog, xpExpected,
                 questAwards, xpRuled, qvars, yvars>>

\* questManager.ts:228-267: addXP's read has resolved; the document is computed
\* from what was read and written; the caller goes on when the write has resolved
AddXPWrites(c) ==
  /\ chain[c].pc = "xp"
  /\ LET x == AddXP(chain[c].xpRead, chain[c].amount) IN
       /\ xpDoc' = <<x>>
       /\ xpRuled' = xpRuled \cap RulesObeyed(x)
  /\ xpExpected' = xpExpected + chain[c].amount
  /\ chain' = [chain EXCEPT ![c].pc = chain[c].ret, ![c].xpRead = <<>>, ![c].amount = 0,
                            ![c].ret = "none",
                            ![c].op = IF chain[c].ret = "begin" THEN chain[c].op + 1
                                      ELSE chain[c].op]
  /\ UNCHANGED <<questsDoc, badgesDoc, nextChain, comp, shows, callLog, questAwards, badgeAwards, qvars,
                 yvars>>

(* ------------------------ QuestsAndBadges panel ------------------------- *)
\* the userStats prop (unnamed/part_004:140-158)
UserStats ==
  {[wordsLearned |-> w, streak |-> 0, level |-> "beginner"] : w \in {0, 1, 50}}

\* QuestsAndBadges.tsx:297-310
ShouldUnlock(id, userStats) ==
  CASE id = "first_word" -> userStats.wordsLearned >= 1
    [] id = "word_collector_50" -> userStats.wordsLearned >= 50
    [] id = "streak_master_30" -> userStats.streak >= 30
    [] id = "hindi_scholar" -> userStats.level \in {"advanced", "expert"}
    [] OTHER -> FALSE

\* QuestsAndBadges.tsx:293-321: the badges this pass unlocks, in order
Unlocking(badges, userStats) ==
  SelectSeq(badges, LAMBDA b : ~b.unlocked /\ ShouldUnlock(b.id, userStats))

\* QuestsAndBadges.tsx:293-321: updatedBadges
UpdatedBadges(badges, userStats) ==
  [k \in 1..Len(badges) |->
     IF ~badges[k].unlocked /\ ShouldUnlock(badges[k].id, userStats)
     THEN [badges[k] EXCEPT !.unlocked = TRUE] ELSE badges[k]]

RECURSIVE SumXP(_)
SumXP(bs) == IF bs = <<>> THEN 0 ELSE Head(bs).xpValue + SumXP(Tail(bs))

\* QuestsAndBadges.tsx:191-197: the effect runs (the panel has become visible, or
\* is visible and the home screen has rendered again), here once the loadData of
\* the run before has settled.  loadData issues its read of the quests (:202);
\* generateDailyQuests (:265-285) sets and writes the quests it builds from the
\* quests of this render; checkBadgeProgress (:291-324) runs on the badges of this
\* render: one awardXP per unlocked badge, none awaited, each computed from the
\* userXP of this render and each writing the XP document (:232-250), so the last
\* one's document stays; then the badges are set and written
PanelEffect(userStats) ==
  /\ shows < MaxShows
  /\ comp.load = "none"
  /\ shows' = shows + 1
  /\ LET quests == UpdatedQuests(comp.quests, shows + 1, today)
         won == Unlocking(comp.badges, userStats)
         badges == UpdatedBadges(comp.badges, userStats)
         x == IF won = <<>> THEN comp.xp ELSE AwardXP(comp.xp, won[Len(won)].xpValue)
     IN /\ questsDoc' = <<quests>>
        /\ badgesDoc' = <<badges>>
        /\ xpDoc' = IF won = <<>> THEN xpDoc ELSE <<x>>
        /\ xpRuled' = {rule \in xpRuled :
                          \A k \in 1..Len(won) : Obeys(AwardXP(comp.xp, won[k].xpValue), rule)}
        /\ xpExpected' = xpExpected + SumXP(won)
        /\ badgeAwards' = [id \in BadgeIds |->
                             IF \E k \in 1..Len(won) : won[k].id = id
                             THEN badgeAwards[id] + 1 ELSE badgeAwards[id]]
        /\ comp' = [comp EXCEPT !.quests = quests, !.badges = badges, !.xp = x,
                                !.load = "quests", !.readQuests = questsDoc]
  /\ UNCHANGED <<chain, nextChain, callLog, questAwards, qvars, dvars, cvars>>

\* the effect, the xpHistory of the documents not followed
PanelShows(userStats) == PanelEffect(userStats) /\ UNCHANGED zvars

\* QuestsAndBadges.tsx:202-208: the quests read has resolved: setQuests(stored) if
\* there was a document; the badges read is issued
LoadQuests ==
  /\ comp.load = "quests"
  /\ comp' = [comp EXCEPT !.load = "badges", !.readQuests = <<>>,
                          !.quests = IF comp.readQuests = <<>> THEN comp.quests
                                     ELSE comp.readQuests[1],
                          !.readBadges = badgesDoc]
  /\ UNCHANGED <<xpDoc, questsDoc, badgesDoc, chain, nextChain, shows, callLog,
                 xpExpected, questAwards, xpRuled, badgeAwards, qvars,
                 yvars>>

\* QuestsAndBadges.tsx:209-217: the badges read has resolved: setBadges(stored) if
\* there was a document; the XP read is issued, and when it has resolved,
\* setUserXP(stored) if there was a document
BadgesLoaded ==
  /\ comp.load = "badges"
  /\ comp' = [comp EXCEPT !.load = "none", !.readBadges = <<>>,
                          !.badges = IF comp.readBadges = <<>> THEN comp.badges
                                     ELSE comp.readBadges[1],
                          !.xp = IF xpDoc = <<>> THEN comp.xp ELSE xpDoc[1]]
  /\ UNCHANGED <<xpDoc, questsDoc, badgesDoc, chain, nextChain, shows, callLog,
                 xpExpected, questAwards, xpRuled, badgeAwards, qvars,
                 dvars, cvars>>

\* the same, the xpHistory of the documents not followed
LoadBadges == BadgesLoaded /\ UNCHANGED zvars

NextLedger ==
  \/ TapCorrect
  \/ \E c \in ChainIds : BeginOp(c)
  \/ \E c \in ChainIds : QuestLoopRuns(c)
  \/ \E c \in ChainIds : BadgeLoopRuns(c)
  \/ \E c \in ChainIds : AddXPWrites(c)
  \/ \E u \in UserStats : PanelShows(u)
  \/ LoadQuests
  \/ LoadBadges

(* --------------------- addXP, one call after another -------------------- *)
Amounts == {10, 25, 30, 50, 75, 100, 150, 200, 250, 300}

\* questManager.ts:225-271, run from its read to its write with nothing in between
AddXPCall(amount) ==
  /\ Len(callLog) < MaxAwards
  /\ callLog' = Append(callLog, [before |-> xpDoc, amount |-> amount])
  /\ xpDoc' = <<AddXP(xpDoc, amount)>>
  /\ xpExpected' = xpExpected + amount
  /\ xpRuled' = xpRuled \cap RulesObeyed(AddXP(xpDoc, amount))
  /\ UNCHANGED <<questsDoc, badgesDoc, chain, nextChain, comp, shows, questAwards, badgeAwards, qvars,
                 yvars>>

NextAddXP == \E amount \in Amounts : AddXPCall(amount)

(* -------------------------- notification sink -------------------------- *)
\* callbacks that register in one run, and showNotification calls of one run
MaxCallbacks == 2
MaxNotes == 3
Callbacks == 1..MaxCallbacks
NoCallback == 0

\* the arguments of one showNotification call (unnamed/part_001:188-195); a
\* title or description is its text and the number set into it
Note(type, title, description, xpAmount, iconName, rarity) ==
  [type |-> type, title |-> title, description |-> description,
   xpAmount |-> xpAmount, iconName |-> iconName, rarity |-> rarity]

\* a variant that calls the callback a second time
InvokedTwice(cb, calls, note) ==
  IF cb # NoCallback
  THEN calls \o <<[callback |-> cb, note |-> note], [callback |-> cb, note |-> note]>>
  ELSE calls

\* unnamed/part_001:196-201: if (this.callback) this.callback(...args) else
\* console.log(...): the invocations of callbacks after the call
Invoked(cb, calls, note) ==
  IF cb # NoCallback THEN Append(calls, [callback |-> cb, note |-> note]) ELSE calls

\* unnamed/part_001:188-202 showNotification
ShowNotification(note) ==
  /\ received' = Invoked(callback, received, note)
  /\ shown' = Append(shown, [note |-> note, regs |-> Len(registered)])
  /\ UNCHANGED <<callback, registered>>

\* unnamed/part_001:184-186 setCallback
SetCallback(cb) ==
  /\ Len(registered) < MaxCallbacks
  /\ callback' = cb
  /\ registered' = Append(registered, cb)
  /\ UNCHANGED <<received, shown, qvars, lvars, dvars, cvars, besideSink>>

\* unnamed/part_001:204-212
XPGainNote(amount, reason) ==
  Note("xp", [text |-> "+ XP", n |-> amount], [text |-> reason, n |-> 0], amount,
       "flash", "undefined")

\* unnamed/part_001:214-223
BadgeUnlockedNote(name, xp, rarity) ==
  Note("badge", [text |-> "Badge Unlocked!", n |-> 0], [text |-> name, n |-> 0], xp,
       "trophy", rarity)

\* unnamed/part_001:225-233
QuestCompletedNote(name, xp) ==
  Note("quest", [text |-> "Quest Complete!", n |-> 0], [text |-> name, n |-> 0], xp,
       "checkmark-circle", "undefined")

\* unnamed/part_001:235-243
LevelUpNote(newLevel) ==
  Note("levelup", [text |-> "Level Up!", n |-> 0],
       [text |-> "You've reached level", n |-> newLevel], 0, "rocket", "undefined")

SinkIdle == UNCHANGED <<qvars, lvars, dvars, cvars, besideSink>>

ShowXPGain(amount) ==
  /\ Len(shown) < MaxNotes
  /\ ShowNotification(XPGainNote(amount, "Correct answer!"))
  /\ SinkIdle

ShowBadgeUnlocked(id, rarity) ==
  /\ Len(shown) < MaxNotes
  /\ ShowNotification(BadgeUnlockedNote(id, 25, rarity))
  /\ SinkIdle

ShowQuestCompleted(xp) ==
  /\ Len(shown) < MaxNotes
  /\ ShowNotification(QuestCompletedNote("Study Session", xp))
  /\ SinkIdle

ShowLevelUp(newLevel) ==
  /\ Len(shown) < MaxNotes
  /\ ShowNotification(LevelUpNote(newLevel))
  /\ SinkIdle

NextSink ==
  \/ \E cb \in Callbacks : SetCallback(cb)
  \/ \E amount \in {10, 50} : ShowXPGain(amount)
  \/ \E id \in {"first_word"}, rarity \in {"common", "rare"} : ShowBadgeUnlocked(id, rarity)
  \/ \E xp \in {50} : ShowQuestCompleted(xp)
  \/ \E newLevel \in {2} : ShowLevelUp(newLevel)

(* ----------------------------- query client --------------------------- *)
\* unnamed/part_000:13 and :28
QueryRetries == 3
MutationRetries == 2

\* attempt indexes retryDelay is called with, and fetches of one run
MaxAttemptIndex == 6
MaxFetches == 2
Fetches == 1..MaxFetches

\* a variant without the cap
RetryDelayUncapped(attemptIndex_) == 1000 * 2^attemptIndex_

\* unnamed/part_000:23  attemptIndex => Math.min(1000 * 2 ** attemptIndex, 30000)
RetryDelay(attemptIndex_) == Min(1000 * 2^attemptIndex_, 30000)

\* unnamed/part_000:13, :28: the retry option of the kind
Retry(kind) == IF kind = "query" THEN QueryRetries ELSE MutationRetries

IdleFetch == [kind |-> "query", status |-> "idle", failureCount |-> 0, waits |-> <<>>]

RetryIdle == UNCHANGED <<qvars, lvars, dvars, cvars, besideRetry>>

\* retryDelay is called with attemptIndex, and with the index after it
RetryDelayCalled ==
  /\ delayFor = <<>>
  /\ delayFor' = <<RetryDelay(attemptIndex), RetryDelay(attemptIndex + 1)>>
  /\ UNCHANGED <<attemptIndex, fetches>>
  /\ RetryIdle

\* a query or a mutation starts: the first call of its function
FetchStarts(q, kind) ==
  /\ fetches[q].status = "idle"
  /\ fetches' = [fetches EXCEPT ![q] = [IdleFetch EXCEPT !.kind = kind, !.status = "fetching"]]
  /\ UNCHANGED <<attemptIndex, delayFor>>
  /\ RetryIdle

\* the function resolves
FetchResolves(q) ==
  /\ fetches[q].status = "fetching"
  /\ fetches' = [fetches EXCEPT ![q].status = "success"]
  /\ UNCHANGED <<attemptIndex, delayFor>>
  /\ RetryIdle

\* the function rejects: with retry: n the retryer of @tanstack/react-query
\* retries while failureCount < n, after retryDelay(failureCount) ms (for a
\* mutation the library's default delay, not followed), and rejects otherwise
FetchRejects(q) ==
  /\ fetches[q].status = "fetching"
  /\ fetches' = [fetches EXCEPT ![q] =
        IF fetches[q].failureCount < Retry(fetches[q].kind)
        THEN [fetches[q] EXCEPT
                !.status = "waiting",
                !.failureCount = fetches[q].failureCount + 1,
                !.waits = IF fetches[q].kind = "query"
                          THEN Append(fetches[q].waits, RetryDelay(fetches[q].failureCount))
                          ELSE fetches[q].waits]
        ELSE [fetches[q] EXCEPT !.status = "error"]]
  /\ UNCHANGED <<attemptIndex, delayFor>>
  /\ RetryIdle

\* the delay has passed: the function is called again
RetryFires(q) ==
  /\ fetches[q].status = "waiting"
  /\ fetches' = [fetches EXCEPT ![q].status = "fetching"]
  /\ UNCHANGED <<attemptIndex, delayFor>>
  /\ RetryIdle

NextRetry ==
  \/ RetryDelayCalled
  \/ \E q \in Fetches, kind \in {"query", "mutation"} : FetchStarts(q, kind)
  \/ \E q \in Fetches : FetchResolves(q)
  \/ \E q \in Fetches : FetchRejects(q)
  \/ \E q \in Fetches : RetryFires(q)

(* ------------------- xpHistory of the XP document ---------------------- *)
\* questManager.ts:263-265  if (xpHistory.length > 50) xpHistory = xpHistory.slice(-50)
XPHistoryLimit == 50

\* addXP calls followed in one run, and addXP calls made before it
MaxHistoryCalls == 3
MaxPriorCalls == 48
PriorCalls == {0, MaxPriorCalls - 1, MaxPriorCalls}
HistoryAmounts == {10, 300}

\* an xpHistory entry {date, xp, source, description}: the call that pushed it
\* stands for its date, the level reached for the description of a 'Level Up'
HistoryEntry(call, xp, source, level) ==
  [call |-> call, xp |-> xp, source |-> source, level |-> level]

\* the last n elements: Array.prototype.slice(-n)
Slice(history, n) ==
  IF Len(history) > n THEN SubSeq(history, Len(history) - n + 1, Len(history))
  ELSE history

\* questManager.ts:240-252: the while loop, with the push of each level reached
RECURSIVE LevelUpLogged(_, _)
LevelUpLogged(x, call) ==
  IF x.currentLevelXP >= x.nextLevelXP
  THEN LevelUpLogged(
         [x EXCEPT !.currentLevelXP = x.currentLevelXP - x.nextLevelXP,
                   !.level = x.level + 1,
                   !.nextLevelXP = (x.level + 1) * 100,
                   !.xpHistory = Append(x.xpHistory,
                                        HistoryEntry(call, 0, "Level Up", x.level + 1))],
         call)
  ELSE x

\* questManager.ts:228-260: the xpHistory after the pushes of one addXP call, from
\* the stored document and its xpHistory
PushedHistory(stored, history, amount, call) ==
  LET x == ReadXP(stored)
      read == [totalXP |-> x.totalXP + amount, level |-> x.level,
               currentLevelXP |-> x.currentLevelXP + amount,
               nextLevelXP |-> x.nextLevelXP, xpHistory |-> history]
  IN Append(LevelUpLogged(read, call).xpHistory, HistoryEntry(call, amount, "gain", 0))

\* questManager.ts:262-265: the xpHistory addXP writes
AddXPHistory(stored, history, amount, call) ==
  IF Len(PushedHistory(stored, history, amount, call)) > XPHistoryLimit
  THEN Slice(PushedHistory(stored, history, amount, call), XPHistoryLimit)
  ELSE PushedHistory(stored, history, amount, call)

\* QuestsAndBadges.tsx:236-247: the xpHistory awardXP writes, from the userXP state
\* of the render it was created in
AwardXPHistory(userHistory, xp, call) ==
  Append(userHistory, HistoryEntry(call, xp, "badge", 0))

\* the XP document, its xpHistory, everything ever pushed and the number of the
\* last call, after one more call of addXP
AfterAddXP(d, amount) ==
  [xp |-> <<AddXP(d.xp, amount)>>,
   xpHistory |-> AddXPHistory(d.xp, d.xpHistory, amount, d.calls + 1),
   log |-> d.log \o SubSeq(PushedHistory(d.xp, d.xpHistory, amount, d.calls + 1),
                           Len(d.xpHistory) + 1,
                           Len(PushedHistory(d.xp, d.xpHistory, amount, d.calls + 1))),
   calls |-> d.calls + 1]

\* after more calls of addXP(10), one after the other, up to call number last
RECURSIVE AfterCalls(_, _)
AfterCalls(d, last) ==
  IF d.calls >= last THEN d ELSE AfterCalls(AfterAddXP(d, 10), last)

\* after k calls of addXP(10) on a fresh install, the last of them numbered 0
StoredAfter(k) ==
  AfterCalls([xp |-> <<>>, xpHistory |-> <<>>, log |-> <<>>, calls |-> 0 - k], 0)

\* questManager.ts:225-271, run from its read to its write with nothing in between
HistoryAddXP(amount) ==
  /\ histCalls < MaxHistoryCalls
  /\ LET d == AfterAddXP([xp |-> xpDoc, xpHistory |-> xpHistory, log |-> appendLog,
                          calls |-> histCalls], amount)
     IN /\ xpDoc' = d.xp
        /\ xpHistory' = d.xpHistory
        /\ appendLog' = d.log
        /\ histCalls' = d.calls
  /\ xpExpected' = xpExpected + amount
  /\ xpRuled' = xpRuled \cap RulesObeyed(AddXP(xpDoc, amount))
  /\ UNCHANGED <<questsDoc, badgesDoc, chain, nextChain, comp, shows, callLog,
                 questAwards, badgeAwards, compHistory, qvars, dvars, cvars,
                 besideHistory>>

\* QuestsAndBadges.tsx:191-197, 291-324: the effect; each awardXP of the pass sets and
\* writes the xpHistory of this render with its own entry appended (:236-250), so
\* the last one's stays
HistoryPanelShows(userStats) ==
  /\ PanelEffect(userStats)
  /\ LET won == Unlocking(comp.badges, userStats)
         entries == [k \in 1..Len(won) |->
                       HistoryEntry(histCalls + k, won[k].xpValue, "badge", 0)]
     IN /\ histCalls' = histCalls + Len(won)
        /\ appendLog' = appendLog \o entries
        /\ xpHistory' = IF won = <<>> THEN xpHistory
                        ELSE AwardXPHistory(compHistory, won[Len(won)].xpValue,
                                            histCalls + Len(won))
        /\ compHistory' = IF won = <<>> THEN compHistory
                          ELSE AwardXPHistory(compHistory, won[Len(won)].xpValue,
                                              histCalls + Len(won))
  /\ UNCHANGED besideHistory

\* QuestsAndBadges.tsx:214-217: setUserXP(JSON.parse(storedXP)) if there was a document
HistoryLoadBadges ==
  /\ BadgesLoaded
  /\ compHistory' = IF xpDoc = <<>> THEN compHistory ELSE xpHistory
  /\ UNCHANGED <<xpHistory, appendLog, histCalls, besideHistory>>

NextHistory ==
  \/ \E amount \in HistoryAmounts : HistoryAddXP(amount)
  \/ \E u \in UserStats : HistoryPanelShows(u)
  \/ LoadQuests
  \/ HistoryLoadBadges

(* ------------- daily stats; handleCorrect, one call at a time ----------- *)
\* questManager.ts:107-114, :118-125: a record of the day with every counter 0
FreshStats(date) ==
  [date |-> date, wordsLearned |-> 0, studyTimeMinutes |-> 0, streak |-> 0,
   correctAnswers |-> 0, totalAnswers |-> 0]

\* the counters of DailyStats (keyof Omit<DailyStats, 'date'>, questManager.ts:103)
StatNames == {"wordsLearned", "studyTimeMinutes", "streak", "correctAnswers", "totalAnswers"}

\* a variant without the reset of a record of another day
UpdateDailyStatsNoReset(stored, date, stat, value) ==
  LET dailyStats == IF stored = <<>> THEN FreshStats(date) ELSE stored[1]
  IN [dailyStats EXCEPT ![stat] = @ + value]

\* questManager.ts:105-131: the record updateDailyStats writes on day `date`, from
\* the stored one it read
UpdateDailyStats(stored, date, stat, value) ==
  LET read == IF stored = <<>> THEN FreshStats(date) ELSE stored[1]
      dailyStats == IF read.date # date THEN FreshStats(date) ELSE read
  IN [dailyStats EXCEPT ![stat] = @ + value]

\* the quests of `new` that were completed since `old`, and the badges of `new`
\* that were unlocked since `old`, in order
CompletedNow(old, new) ==
  SelectSeq(new, LAMBDA q : q.isCompleted /\ \E k \in 1..Len(old) :
                                               old[k].id = q.id /\ ~old[k].isCompleted)

UnlockedNow(old, new) ==
  SelectSeq(new, LAMBDA b : b.unlocked /\ \E k \in 1..Len(old) :
                                            old[k].id = b.id /\ ~old[k].unlocked)

RECURSIVE SumReward(_)
SumReward(qs) == IF qs = <<>> THEN 0 ELSE Head(qs).xpReward + SumReward(Tail(qs))

\* the rules of `rules` that every document obeys that addXP writes when it is
\* called with the amounts of `amounts`, one call after the other
RECURSIVE RulesAlong(_, _, _)
RulesAlong(rules, xp, amounts) ==
  IF amounts = <<>> THEN rules
  ELSE LET x == AddXP(xp, Head(amounts))
       IN RulesAlong(rules \cap RulesObeyed(x), <<x>>, Tail(amounts))

\* checkBadges from its reads to its return (questManager.ts:170-223) with nothing
\* else running: without daily stats it returns before the loop and writes nothing
CheckBadgesRun(xp, badges, stats) ==
  IF stats = <<>> THEN [xp |-> xp, badges |-> badges, unlocked |-> <<>>]
  ELSE LET r == CheckBadges(xp, ReadBadges(badges), 1, stats[1])
       IN [xp |-> r.xp, badges |-> <<r.badges>>, unlocked |-> r.unlocked]

\* a stored text that cannot be parsed (a stored document is <<>>, when nothing
\* is stored, or <<document>>)
NotJsonDoc == <<"not", "JSON">>

\* JSON.parse of the stored text does not throw (nothing stored is not parsed)
IsJson(stored) == Len(stored) <= 1

\* which setItem calls of one questManager call fail, by document
\* (webStorage.ts:23-37: the failure is logged, the caller is not told)
Faults == [stats : BOOLEAN, xp : BOOLEAN, quests : BOOLEAN, badges : BOOLEAN]
NoFaults == [stats |-> FALSE, xp |-> FALSE, quests |-> FALSE, badges |-> FALSE]
AnyFault(f) == f.stats \/ f.xp \/ f.quests \/ f.badges

\* the four stored documents of the ledger
Docs == [xp |-> xpDoc, quests |-> questsDoc, badges |-> badgesDoc, stats |-> statsDoc]

\* addXP can write: the stored XP parses (otherwise :228 throws and :268 catches)
\* and its setItem does not fail
XPWrites(d, f) == IsJson(d.xp) /\ ~f.xp

\* questManager.ts:103-135 updateDailyStats, from the stored documents d
StatsCall(d, date, stat, value, f) ==
  IF ~IsJson(d.stats) \/ f.stats THEN d
  ELSE [d EXCEPT !.stats = <<UpdateDailyStats(d.stats, date, stat, value)>>]

\* questManager.ts:225-271 addXP
XPCall(d, amount, f) ==
  IF XPWrites(d, f) THEN [d EXCEPT !.xp = <<AddXP(d.xp, amount)>>] ELSE d

\* questManager.ts:137-168 updateQuestProgress: the documents it leaves and the
\* quests it completed (whose reward it passed to addXP)
QuestCall(d, category, delta, f) ==
  IF ~IsJson(d.quests) THEN [docs |-> d, done |-> <<>>]
  ELSE LET r == UpdateQuestProgress(IF XPWrites(d, f) THEN d.xp ELSE <<>>,
                                    ReadQuests(d.quests), 1, category, delta)
       IN [docs |-> [d EXCEPT !.xp = IF XPWrites(d, f) THEN r.xp ELSE d.xp,
                              !.quests = IF f.quests THEN d.quests ELSE <<r.quests>>],
           done |-> CompletedNow(ReadQuests(d.quests), r.quests)]

\* questManager.ts:170-223 checkBadges: the documents it leaves, the badges it
\* unlocked (whose value it passed to addXP) and what it returns
BadgeCall(d, f) ==
  IF ~IsJson(d.badges) \/ ~IsJson(d.stats)
  THEN [docs |-> d, won |-> <<>>, unlocked |-> <<>>]
  ELSE LET r == CheckBadgesRun(IF XPWrites(d, f) THEN d.xp ELSE <<>>, d.badges, d.stats)
       IN [docs |-> [d EXCEPT !.xp = IF XPWrites(d, f) THEN r.xp ELSE d.xp,
                              !.badges = IF f.badges THEN d.badges ELSE r.badges],
           won |-> UnlockedNow(ReadBadges(d.badges), ReadBadges(r.badges)),
           unlocked |-> r.unlocked]

\* the three calls of handleCorrect follow each other (unnamed/part_016:90-92)
NoCall == [name |-> "none", unlocked |-> <<>>, failed |-> FALSE, xpGained |-> 0, rise |-> 0]

\* history: by how much the stored totalXP has risen from one document to another
Rise(before, after) ==
  (IF IsJson(after) THEN ReadXP(after).totalXP ELSE 0)
    - (IF IsJson(before) THEN ReadXP(before).totalXP ELSE 0)

\* the calls in which a write failed are counted
Counted(f) == failures + (IF AnyFault(f) THEN 1 ELSE 0)

\* questManager.ts:28-48 trackWordLearned, from its first read to its return
TrackWordLearned(f) ==
  /\ answers < MaxAnswers
  /\ Counted(f) <= MaxFaults
  /\ lastCall.name \in {"none", "trackStudyTime"}
  /\ LET s == StatsCall(Docs, today, "wordsLearned", 1, f)
         q == QuestCall(s, "progress", 1, f)
         b == BadgeCall(q.docs, f)
         amounts == [k \in 1..Len(q.done) |-> q.done[k].xpReward]
                      \o [k \in 1..Len(b.won) |-> b.won[k].xpValue]
     IN /\ statsDoc' = b.docs.stats
        /\ questsDoc' = b.docs.quests
        /\ badgesDoc' = b.docs.badges
        /\ xpDoc' = b.docs.xp
        /\ lastCall' = [name |-> "trackWordLearned", unlocked |-> b.unlocked,
                        failed |-> AnyFault(f), xpGained |-> SumReward(q.done),
                        rise |-> Rise(xpDoc, b.docs.xp)]
        /\ xpExpected' = xpExpected + SumReward(q.done) + SumXP(b.won)
        /\ xpRuled' = IF XPWrites(Docs, f) THEN RulesAlong(xpRuled, xpDoc, amounts)
                      ELSE xpRuled
        /\ questAwards' = [id \in QuestKeys |->
                             IF \E k \in 1..Len(q.done) : q.done[k].id = id
                             THEN questAwards[id] + 1 ELSE questAwards[id]]
        /\ badgeAwards' = [id \in BadgeIds |->
                             IF \E k \in 1..Len(b.won) : b.won[k].id = id
                             THEN badgeAwards[id] + 1 ELSE badgeAwards[id]]
  /\ failures' = Counted(f)
  /\ UNCHANGED <<today, answers, chain, nextChain, comp, shows, callLog, qvars, cvars, zvars>>

\* questManager.ts:50-65 trackCorrectAnswer
TrackCorrectAnswer(f) ==
  /\ lastCall.name = "trackWordLearned"
  /\ Counted(f) <= MaxFaults
  /\ LET correct == StatsCall(Docs, today, "correctAnswers", 1, f)
         total == StatsCall(correct, today, "totalAnswers", 1, f)
         x == XPCall(total, 10, f)
     IN /\ statsDoc' = x.stats
        /\ xpDoc' = x.xp
        /\ lastCall' = [name |-> "trackCorrectAnswer", unlocked |-> <<>>,
                        failed |-> AnyFault(f), xpGained |-> 10, rise |-> Rise(xpDoc, x.xp)]
  /\ xpExpected' = xpExpected + 10
  /\ xpRuled' = IF XPWrites(Docs, f) THEN RulesAlong(xpRuled, xpDoc, <<10>>) ELSE xpRuled
  /\ failures' = Counted(f)
  /\ UNCHANGED <<today, answers, questsDoc, badgesDoc, chain, nextChain, comp, shows,
                 callLog, questAwards, badgeAwards, qvars, cvars, zvars>>

\* questManager.ts:67-83 trackStudyTime(1)
StudyTimeTracked(f) ==
  /\ lastCall.name = "trackCorrectAnswer"
  /\ Counted(f) <= MaxFaults
  /\ LET s == StatsCall(Docs, today, "studyTimeMinutes", 1, f)
         q == QuestCall(s, "study", 1, f)
     IN /\ statsDoc' = q.docs.stats
        /\ questsDoc' = q.docs.quests
        /\ xpDoc' = q.docs.xp
        /\ xpExpected' = xpExpected + SumReward(q.done)
        /\ xpRuled' = IF XPWrites(Docs, f)
                      THEN RulesAlong(xpRuled, xpDoc,
                                      [k \in 1..Len(q.done) |-> q.done[k].xpReward])
                      ELSE xpRuled
        /\ questAwards' = [id \in QuestKeys |->
                             IF \E k \in 1..Len(q.done) : q.done[k].id = id
                             THEN questAwards[id] + 1 ELSE questAwards[id]]
        /\ lastCall' = [name |-> "trackStudyTime", unlocked |-> <<>>,
                        failed |-> AnyFault(f), xpGained |-> SumReward(q.done),
                        rise |-> Rise(xpDoc, q.docs.xp)]
  /\ answers' = answers + 1
  /\ failures' = Counted(f)
  /\ UNCHANGED <<today, badgesDoc, chain, nextChain, comp, shows, callLog, badgeAwards,
                 qvars, cvars>>

\* the same; handleCorrect returns, its notification not followed
TrackStudyTime(f) == StudyTimeTracked(f) /\ UNCHANGED zvars

\* the date changes (between two calls of questManager)
Midnight ==
  /\ today < MaxDays
  /\ today' = today + 1
  /\ UNCHANGED <<statsDoc, answers, lastCall, failures, lvars, qvars, cvars, zvars>>

\* unnamed/part_016:93-97: trackStudyTime(1) has returned; handleCorrect calls
\* notificationManager.showXPGain(10, 'Correct answer!') and returns
StudyTimeThenNotice ==
  /\ StudyTimeTracked(NoFaults)
  /\ ShowNotification(XPGainNote(10, "Correct answer!"))
  /\ UNCHANGED besideSink

\* a screen registers its callback (between two calls of questManager)
SubscriberSet(cb) == SetCallback(cb)

\* correct answers given one after the other, with the notification sink
NextNoticed ==
  \/ TrackWordLearned(NoFaults)
  \/ TrackCorrectAnswer(NoFaults)
  \/ StudyTimeThenNotice
  \/ \E cb \in Callbacks : SubscriberSet(cb)

NextDay ==
  \/ TrackWordLearned(NoFaults)
  \/ TrackCorrectAnswer(NoFaults)
  \/ TrackStudyTime(NoFaults)
  \/ Midnight

\* the same calls while writes fail
NextFaults ==
  \/ \E f \in Faults : TrackWordLearned(f)
  \/ \E f \in Faults : TrackCorrectAnswer(f)
  \/ \E f \in Faults : TrackStudyTime(f)

(* ------------------- performanceService: memory cache ------------------ *)
\* cache keys are strings; they are numbered here, and key 0 is the empty string,
\* the one string that is falsy (performanceService.ts:21)
CacheKeys == 0..(maxMemoryCacheSize + 1)

\* the keys the calls of a run use: the empty string, the first key of the cache
\* the run starts with, and a key that is not in it
CallKeys == {0, 1, maxMemoryCacheSize + 1}

Values == {"v", "w"}
TTLs == 0..MaxNow

Null == "null"

NoEntry == [data |-> Null, timestamp |-> 0, ttl |-> 0, state |-> "never"]

KeysOf(cache) == {cache[k].key : k \in 1..Len(cache)}

\* Map.get: the entry of the key (the key is in the cache)
EntryOf(cache, key) == cache[CHOOSE k \in 1..Len(cache) : cache[k].key = key]

\* Map.delete
Deleted(cache, key) == SelectSeq(cache, LAMBDA e : e.key # key)

\* Map.set: an existing key keeps its place, a new key goes last
MapSet(cache, entry) ==
  IF entry.key \in KeysOf(cache)
  THEN [k \in 1..Len(cache) |-> IF cache[k].key = entry.key THEN entry ELSE cache[k]]
  ELSE Append(cache, entry)

\* a variant with >= for >: an entry of age ttl has expired
ExpiredAtBoundary(item, time) == time - item.timestamp >= item.ttl

\* performanceService.ts:39, :198  Date.now() - item.timestamp > item.ttl
Expired(item, time) == time - item.timestamp > item.ttl

\* performanceService.ts:19-24: the cache after the eviction step of setMemoryCache
Evicted(cache) ==
  IF Len(cache) >= maxMemoryCacheSize /\ cache[1].key # 0
  THEN Tail(cache) ELSE cache

\* performanceService.ts:17-31: the cache after setMemoryCache(key, data, ttl)
SetMemoryCache(cache, key, data, ttl, time) ==
  MapSet(Evicted(cache), [key |-> key, data |-> data, timestamp |-> time, ttl |-> ttl])

\* performanceService.ts:33-45: what getMemoryCache(key) returns, and the cache after
GetMemoryCache(cache, key, time) ==
  IF key \notin KeysOf(cache) THEN [data |-> Null, cache |-> cache]
  ELSE IF Expired(EntryOf(cache, key), time)
       THEN [data |-> Null, cache |-> Deleted(cache, key)]
       ELSE [data |-> EntryOf(cache, key).data, cache |-> cache]

\* performanceService.ts:193-202: the cache after cleanupCache
CleanupCache(cache, time) == SelectSeq(cache, LAMBDA e : ~Expired(e, time))

\* history: the keys that left the cache are marked with the reason
Dropped(sets, before, after, reason) ==
  [k \in CacheKeys |->
     IF k \in KeysOf(before) \ KeysOf(after) THEN [sets[k] EXCEPT !.state = reason]
     ELSE sets[k]]

\* the cache after n calls setMemoryCache(key, "v", ttl) at time 0, the first one
\* with key `first` and ttl `ttlFirst`, the others with keys 2..n and ttl `ttlRest`
Filled(n, first, ttlFirst, ttlRest) ==
  [k \in 1..n |-> [key |-> IF k = 1 THEN first ELSE k, data |-> "v", timestamp |-> 0,
                   ttl |-> IF k = 1 THEN ttlFirst ELSE ttlRest]]

NoOp == [n |-> 0, op |-> "none", key |-> 0, data |-> Null, at |-> 0]

\* the memory cache after construction
MemoryAtRest ==
  /\ memoryCache = <<>>
  /\ now = 0
  /\ lastSet = [k \in CacheKeys |-> NoEntry]
  /\ lastOp = NoOp

\* the memory cache during a session: empty, one entry short of full, or full
CacheInUse ==
  \E n \in {0, maxMemoryCacheSize - 1, maxMemoryCacheSize}, first \in {0, 1},
     ttlFirst \in TTLs, ttlRest \in TTLs :
    /\ memoryCache = Filled(n, first, ttlFirst, ttlRest)
    /\ now = 0
    /\ lastSet = [k \in CacheKeys |->
                    IF k \in KeysOf(memoryCache)
                    THEN [data |-> EntryOf(memoryCache, k).data, timestamp |-> 0,
                          ttl |-> EntryOf(memoryCache, k).ttl, state |-> "set"]
                    ELSE NoEntry]
    /\ lastOp = NoOp

\* a caller calls setMemoryCache (performanceService.ts:175, :235, :303, :311)
SetCall(key, data, ttl) ==
  /\ lastOp.n < MaxCacheCalls
  /\ memoryCache' = SetMemoryCache(memoryCache, key, data, ttl, now)
  /\ lastSet' = [Dropped(lastSet, memoryCache, memoryCache', "evicted") EXCEPT
                   ![key] = [data |-> data, timestamp |-> now, ttl |-> ttl, state |-> "set"]]
  /\ lastOp' = [n |-> lastOp.n + 1, op |-> "set", key |-> key, data |-> data, at |-> now]
  /\ UNCHANGED <<now, qvars, lvars, dvars, pvars, zvars>>

\* a caller calls getMemoryCache (performanceService.ts:292)
GetCall(key) ==
  /\ lastOp.n < MaxCacheCalls
  /\ LET r == GetMemoryCache(memoryCache, key, now) IN
       /\ memoryCache' = r.cache
       /\ lastOp' = [n |-> lastOp.n + 1, op |-> "get", key |-> key, data |-> r.data,
                    at |-> now]
  /\ lastSet' = Dropped(lastSet, memoryCache, memoryCache', "expired")
  /\ UNCHANGED <<now, qvars, lvars, dvars, pvars, zvars>>

\* performanceService.ts:47-49 clearMemoryCache
ClearCall ==
  /\ lastOp.n < MaxCacheCalls
  /\ memoryCache' = <<>>
  /\ lastSet' = Dropped(lastSet, memoryCache, <<>>, "cleared")
  /\ lastOp' = [n |-> lastOp.n + 1, op |-> "clear", key |-> 0, data |-> Null, at |-> now]
  /\ UNCHANGED <<now, qvars, lvars, dvars, pvars, zvars>>

\* performanceService.ts:207-216: the app goes to the background, or the interval
\* fires: cleanupCache
CleanupCall ==
  /\ lastOp.n < MaxCacheCalls
  /\ memoryCache' = CleanupCache(memoryCache, now)
  /\ lastSet' = Dropped(lastSet, memoryCache, memoryCache', "expired")
  /\ lastOp' = [n |-> lastOp.n + 1, op |-> "cleanup", key |-> 0, data |-> Null, at |-> now]
  /\ UNCHANGED <<now, qvars, lvars, dvars, pvars, zvars>>

\* time passes
Tick ==
  /\ now < MaxNow
  /\ now' = now + 1
  /\ UNCHANGED <<memoryCache, lastSet, lastOp, qvars, lvars, dvars, pvars, zvars>>

NextCache ==
  \/ \E key \in CallKeys, data \in Values, ttl \in TTLs : SetCall(key, data, ttl)
  \/ \E key \in CallKeys : GetCall(key)
  \/ ClearCall
  \/ CleanupCall
  \/ Tick

(* ----------------- performanceService: persistent cache ---------------- *)
\* strings whose characters matter are sequences of characters
CachePrefix == <<"c", "a", "c", "h", "e", "_">>

\* String.prototype.startsWith (performanceService.ts:89)
StartsWith(str, prefix) ==
  Len(str) >= Len(prefix) /\ SubSeq(str, 1, Len(prefix)) = prefix

\* performanceService.ts:61, :68, :75  `cache_${key}`
CacheKey(key) == CachePrefix \o key

\* the names the callers of the persistent cache use
CacheNames == {<<>>, <<"a">>}

\* questManager.ts:4-7 and useOfflineMode.ts:29: the keys of the quests, the
\* badges, the XP, the daily stats and the offline queue
QUESTS_STORAGE_KEY ==
  <<"h", "i", "n", "d", "i", "_", "l", "e", "a", "r", "n", "i", "n", "g", "_",
    "q", "u", "e", "s", "t", "s">>

BADGES_STORAGE_KEY ==
  <<"h", "i", "n", "d", "i", "_", "l", "e", "a", "r", "n", "i", "n", "g", "_",
    "b", "a", "d", "g", "e", "s">>

XP_STORAGE_KEY ==
  <<"h", "i", "n", "d", "i", "_", "l", "e", "a", "r", "n", "i", "n", "g", "_",
    "x", "p">>

DAILY_STATS_KEY ==
  <<"h", "i", "n", "d", "i", "_", "l", "e", "a", "r", "n", "i", "n", "g", "_",
    "d", "a", "i", "l", "y", "_", "s", "t", "a", "t", "s">>

OFFLINE_QUEUE_KEY ==
  <<"h", "i", "n", "d", "i", "_", "l", "e", "a", "r", "n", "i", "n", "g", "_",
    "o", "f", "f", "l", "i", "n", "e", "_", "q", "u", "e", "u", "e">>

OtherKeys ==
  {QUESTS_STORAGE_KEY, BADGES_STORAGE_KEY, XP_STORAGE_KEY, DAILY_STATS_KEY, OFFLINE_QUEUE_KEY}

StoreKeys == {CacheKey(name) : name \in CacheNames} \cup OtherKeys

\* stored texts: none, the JSON text of a value, or a text that is not JSON
Absent == <<>>
Json(value) == <<"json", value>>
NotJson == <<"text">>

\* the text of a document of the ledger or the queue (never parsed here)
Document == Json([data |-> "document", timestamp |-> 0, ttl |-> 0])

\* how a piece of code ends: it returns data or throws; `store` is the store it
\* leaves, `fault` whether a call on the store threw, `malformed` whether
\* JSON.parse threw
Return(data, st, fault) ==
  [threw |-> FALSE, data |-> data, store |-> st, fault |-> fault, malformed |-> FALSE]
Throw(st, fault, malformed) ==
  [threw |-> TRUE, data |-> Null, store |-> st, fault |-> fault, malformed |-> malformed]

\* a variant of try/catch that lets the exception through
TryRethrows(body, data) == body

\* try { body } catch (error) { console.warn(...); return data }
\* (performanceService.ts:53-63, :67-83, :87-93)
Try(body, data) == IF body.threw THEN [body EXCEPT !.threw = FALSE, !.data = data] ELSE body

\* performanceService.ts:52-64 setPersistentCache; failSet: AsyncStorage.setItem throws
SetPersistentCache(st, key, data, ttl, time, failSet) ==
  Try(IF failSet THEN Throw(st, TRUE, FALSE)
      ELSE Return(Null,
                  [st EXCEPT ![CacheKey(key)] =
                     Json([data |-> data, timestamp |-> time, ttl |-> ttl])],
                  FALSE),
      Null)

\* performanceService.ts:66-84 getPersistentCache; failGet, failRemove:
\* AsyncStorage.getItem, AsyncStorage.removeItem throws
GetPersistentCache(st, key, time, failGet, failRemove) ==
  Try(IF failGet THEN Throw(st, TRUE, FALSE)
      ELSE LET item == st[CacheKey(key)] IN
        IF item = Absent THEN Return(Null, st, FALSE)
        ELSE IF item = NotJson THEN Throw(st, FALSE, TRUE)
        ELSE IF Expired(item[2], time)
             THEN IF failRemove THEN Throw(st, TRUE, FALSE)
                  ELSE Return(Null, [st EXCEPT ![CacheKey(key)] = Absent], FALSE)
             ELSE Return(item[2].data, st, FALSE),
      Null)

\* AsyncStorage.getAllKeys
AllKeys(st) == {k \in StoreKeys : st[k] # Absent}

\* performanceService.ts:86-94 clearPersistentCache; failKeys: getAllKeys throws;
\* failRemove: multiRemove throws, having removed the keys of `removed`
ClearPersistentCache(st, failKeys, failRemove, removed) ==
  Try(IF failKeys THEN Throw(st, TRUE, FALSE)
      ELSE LET cacheKeys == {k \in AllKeys(st) : StartsWith(k, CachePrefix)} IN
        IF failRemove
        THEN Throw([k \in StoreKeys |-> IF k \in cacheKeys \cap removed THEN Absent ELSE st[k]],
                   TRUE, FALSE)
        ELSE Return(Null, [k \in StoreKeys |-> IF k \in cacheKeys THEN Absent ELSE st[k]],
                    FALSE),
      Null)

NoStoreOp ==
  [n |-> 0, op |-> "none", threw |-> FALSE, data |-> Null, fault |-> FALSE,
   malformed |-> FALSE, before |-> [k \in StoreKeys |-> Absent]]

\* how a call on the persistent cache, with outcome r, is recorded
Recorded(op, r) ==
  [n |-> pLast.n + 1, op |-> op, threw |-> r.threw, data |-> r.data, fault |-> r.fault,
   malformed |-> r.malformed, before |-> store]

\* nothing stored, no call made
StoreAtRest ==
  /\ store = [k \in StoreKeys |-> Absent]
  /\ pLast = NoStoreOp

\* the store of an installation in use: the ledger and the queue have written
\* their documents; under each cache key there is nothing, an entry written at
\* time 0, or a text that is not JSON
StoreInUse ==
  /\ \E texts \in [CacheNames -> {Absent, NotJson}
                                    \cup {Json([data |-> "v", timestamp |-> 0, ttl |-> t]) :
                                            t \in TTLs}] :
       store = [k \in StoreKeys |->
                  IF k \in OtherKeys THEN Document
                  ELSE texts[CHOOSE name \in CacheNames : CacheKey(name) = k]]
  /\ pLast = NoStoreOp

SetPersistentCall(key, data, ttl, failSet) ==
  /\ pLast.n < MaxStoreCalls
  /\ LET r == SetPersistentCache(store, key, data, ttl, now, failSet) IN
       /\ store' = r.store
       /\ pLast' = Recorded("set", r)
  /\ UNCHANGED <<qvars, lvars, dvars, mvars, zvars>>

GetPersistentCall(key, failGet, failRemove) ==
  /\ pLast.n < MaxStoreCalls
  /\ LET r == GetPersistentCache(store, key, now, failGet, failRemove) IN
       /\ store' = r.store
       /\ pLast' = Recorded("get", r)
  /\ UNCHANGED <<qvars, lvars, dvars, mvars, zvars>>

ClearPersistentCall(failKeys, failRemove, removed) ==
  /\ pLast.n < MaxStoreCalls
  /\ LET r == ClearPersistentCache(store, failKeys, failRemove, removed) IN
       /\ store' = r.store
       /\ pLast' = Recorded("clear", r)
  /\ UNCHANGED <<qvars, lvars, dvars, mvars, zvars>>

NextPersist ==
  \/ \E key \in CacheNames, data \in Values, ttl \in TTLs, failSet \in BOOLEAN :
       SetPersistentCall(key, data, ttl, failSet)
  \/ \E key \in CacheNames, failGet \in BOOLEAN, failRemove \in BOOLEAN :
       GetPersistentCall(key, failGet, failRemove)
  \/ \E failKeys \in BOOLEAN, failRemove \in BOOLEAN, removed \in SUBSET {CacheKey(name) : name \in CacheNames} :
       ClearPersistentCall(failKeys, failRemove, removed)
  \/ Tick

(* ------------------------- usePerformanceCache ------------------------- *)
\* loadData calls of one run, and how far time goes
MaxLoads == 3
MaxLoadNow == 2
LoadIds == 1..MaxLoads
LoadTTLs == {1}

\* the values the fetchers return, one after the other
FetchValues == <<"v", "w">>

\* the key of the memory cache for a name of the persistent cache ('' is key 0)
MemoryKey(name) == IF name = <<>> THEN 0 ELSE 1

FreeLoad == [pc |-> "free", key |-> <<>>, ttl |-> 0]

Serves(data, key) == served \cup {[data |-> data, key |-> key, at |-> now]}

\* performanceService.ts:285-297: the effect runs (mount, or the key has changed):
\* loadData reads the memory cache; a hit is set and returned, otherwise the read
\* of the persistent cache is issued
LoadStarts(l, key, ttl) ==
  /\ loads[l].pc = "free"
  /\ \A k \in 1..(l - 1) : loads[k].pc # "free"
  /\ LET cached == GetMemoryCache(memoryCache, MemoryKey(key), now) IN
       /\ memoryCache' = cached.cache
       /\ IF cached.data # Null
          THEN /\ served' = Serves(cached.data, key)
               /\ loads' = [loads EXCEPT ![l] = [pc |-> "done", key |-> key, ttl |-> ttl]]
          ELSE /\ served' = served
               /\ loads' = [loads EXCEPT ![l] = [pc |-> "persistent", key |-> key,
                                                 ttl |-> ttl]]
  /\ UNCHANGED <<now, lastSet, lastOp, pvars, fetched, qvars, lvars, dvars, besideLoads>>

\* performanceService.ts:300-309: getPersistentCache has resolved; a hit is set and
\* put into the memory cache with the hook's ttl, otherwise the fetcher is called
LoadAfterPersistent(l) ==
  /\ loads[l].pc = "persistent"
  /\ LET r == GetPersistentCache(store, loads[l].key, now, FALSE, FALSE) IN
       /\ store' = r.store
       /\ IF r.data # Null
          THEN /\ served' = Serves(r.data, loads[l].key)
               /\ memoryCache' = SetMemoryCache(memoryCache, MemoryKey(loads[l].key),
                                                r.data, loads[l].ttl, now)
               /\ loads' = [loads EXCEPT ![l].pc = "done"]
          ELSE /\ Len(fetched) < Len(FetchValues)
               /\ served' = served
               /\ memoryCache' = memoryCache
               /\ loads' = [loads EXCEPT ![l].pc = "fetching"]
  /\ UNCHANGED <<now, lastSet, lastOp, pLast, fetched, qvars, lvars, dvars, besideLoads>>

\* performanceService.ts:309-312: the fetcher has resolved; the result is set, put
\* into the memory cache and into the persistent cache
LoadAfterFetch(l) ==
  /\ loads[l].pc = "fetching"
  /\ Len(fetched) < Len(FetchValues)
  /\ LET result == FetchValues[Len(fetched) + 1] IN
       /\ fetched' = Append(fetched, [data |-> result, at |-> now, ttl |-> loads[l].ttl])
       /\ served' = Serves(result, loads[l].key)
       /\ memoryCache' = SetMemoryCache(memoryCache, MemoryKey(loads[l].key), result,
                                        loads[l].ttl, now)
       /\ store' = SetPersistentCache(store, loads[l].key, result, loads[l].ttl, now,
                                      FALSE).store
  /\ loads' = [loads EXCEPT ![l].pc = "done"]
  /\ UNCHANGED <<now, lastSet, lastOp, pLast, qvars, lvars, dvars, besideLoads>>

\* performanceService.ts:47-49 clearMemoryCache, or the app starts again
MemoryCleared ==
  /\ memoryCache # <<>>
  /\ memoryCache' = <<>>
  /\ UNCHANGED <<now, lastSet, lastOp, pvars, uvars, qvars, lvars, dvars, besideLoads>>

\* time passes
LoadTick ==
  /\ now < MaxLoadNow
  /\ now' = now + 1
  /\ UNCHANGED <<memoryCache, lastSet, lastOp, pvars, uvars, qvars, lvars, dvars,
                 besideLoads>>

NextLoads ==
  \/ \E l \in LoadIds, key \in CacheNames, ttl \in LoadTTLs : LoadStarts(l, key, ttl)
  \/ \E l \in LoadIds : LoadAfterPersistent(l)
  \/ \E l \in LoadIds : LoadAfterFetch(l)
  \/ MemoryCleared
  \/ LoadTick

(* ---------------------------- specifications --------------------------- *)
QueueAtRest ==
  /\ storedQueue = <<>>
  /\ net = TRUE
  /\ hook = [i \in Inst |-> InitialState]
  /\ storedLastSync = 0
  /\ clock = 1
  /\ qa = [a \in ActionIds |-> FreeQA]
  /\ pass = [p \in PassIds |-> FreePass]
  /\ nextId = 1
  /\ nextCall = MaxActions + 1
  /\ accepted = {}
  /\ replayed = {}
  /\ failCount = [a \in ActionIds |-> 0]

\* day 0, no daily stats stored, handleCorrect not running (where the chains of
\* taps run, the stored stats are not followed: see DailyStatsAtCheck)
DayAtRest ==
  /\ statsDoc = <<>>
  /\ today = 0
  /\ answers = 0
  /\ lastCall = NoCall
  /\ failures = 0

\* the ledger of a fresh install on which the quests panel was never opened
LedgerUntouched ==
  /\ xpDoc = <<>>
  /\ questsDoc = <<>>
  /\ badgesDoc = <<>>
  /\ chain = [c \in ChainIds |-> IdleChain]
  /\ nextChain = 1
  /\ comp = MountedComp
  /\ shows = 0
  /\ callLog = <<>>
  /\ xpExpected = 0
  /\ questAwards = [id \in QuestKeys |-> 0]
  /\ xpRuled = {"rising", "flat"}
  /\ badgeAwards = [id \in BadgeIds |-> 0]

\* no xpHistory followed
HistoryAtRest ==
  /\ xpHistory = <<>>
  /\ compHistory = <<>>
  /\ appendLog = <<>>
  /\ histCalls = 0

\* the notification sink after construction
SinkAtRest ==
  /\ callback = NoCallback
  /\ registered = <<>>
  /\ received = <<>>
  /\ shown = <<>>

\* the query client with nothing fetched
FetchesAtRest ==
  /\ delayFor = <<>>
  /\ fetches = [q \in Fetches |-> IdleFetch]

RetryAtRest == attemptIndex = 0 /\ FetchesAtRest

\* no usePerformanceCache hook mounted
LoadsAtRest ==
  /\ loads = [l \in LoadIds |-> FreeLoad]
  /\ fetched = <<>>
  /\ served = {}

\* the parts followed on their own, at rest
OthersAtRest == HistoryAtRest /\ SinkAtRest /\ RetryAtRest /\ LoadsAtRest

\* the caches after construction, and the parts followed on their own at rest
CacheAtRest == MemoryAtRest /\ StoreAtRest /\ OthersAtRest

\* the offline queue and its two hook instances
InitQueue == QueueAtMount /\ LedgerAfter(0) /\ DayAtRest /\ CacheAtRest

SpecQueue == InitQueue /\ [][NextQueue]_vars

\* the queue while reads and writes of AsyncStorage may throw; a pass that has
\* started goes on: the promises it awaits (AsyncStorage, the 500 ms timer of
\* processQueueItem) settle
InitFlush == QueueAtMount /\ LedgerAfter(0) /\ DayAtRest /\ CacheAtRest

SpecFlush ==
  InitFlush /\ [][NextFlush]_vars /\ \A p \in PassIds : WF_vars(PassStep(p))

\* the ledger under taps on "correct" and visits of the quests panel
InitLedger == QueueAtRest /\ DayAtRest /\ CacheAtRest /\ \E n \in 0..MaxPrior : LedgerAfter(n)

SpecLedger == InitLedger /\ [][NextLedger]_vars

\* addXP called one call at a time, on a fresh install
InitAddXP == QueueAtRest /\ LedgerAfter(0) /\ DayAtRest /\ CacheAtRest

SpecAddXP == InitAddXP /\ [][NextAddXP]_vars

\* correct answers given one after the other while the date changes, on a fresh
\* install where the quests panel was opened once or never
InitDay == QueueAtRest /\ DayAtRest /\ CacheAtRest /\ (LedgerAfter(0) \/ LedgerUntouched)

SpecDay == InitDay /\ [][NextDay]_vars

\* the ledger after the panel's first visit, one of its documents possibly
\* replaced by a text that is not JSON
LedgerCorrupted(bad) ==
  /\ xpDoc = IF bad = "xp" THEN NotJsonDoc ELSE Prior(0).xp
  /\ questsDoc = IF bad = "quests" THEN NotJsonDoc ELSE Prior(0).quests
  /\ badgesDoc = IF bad = "badges" THEN NotJsonDoc ELSE Prior(0).badges
  /\ statsDoc = IF bad = "stats" THEN NotJsonDoc ELSE <<>>
  /\ chain = [c \in ChainIds |-> IdleChain]
  /\ nextChain = 1
  /\ comp = FreshComp
  /\ shows = 0
  /\ callLog = <<>>
  /\ xpExpected = 0
  /\ questAwards = [id \in QuestKeys |-> 0]
  /\ xpRuled = {"rising", "flat"}
  /\ badgeAwards = [id \in BadgeIds |-> 0]
  /\ today = 0
  /\ answers = 0
  /\ lastCall = NoCall
  /\ failures = 0

\* correct answers given one after the other while writes to the store fail, from
\* documents of which one may be corrupt
InitFaults ==
  QueueAtRest /\ CacheAtRest
    /\ \E bad \in {"none", "xp", "quests", "badges", "stats"} : LedgerCorrupted(bad)

SpecFaults == InitFaults /\ [][NextFaults]_vars

\* calls on the memory cache of performanceService while time passes
InitCache ==
  QueueAtRest /\ LedgerUntouched /\ DayAtRest /\ CacheInUse /\ StoreAtRest /\ OthersAtRest

SpecCache == InitCache /\ [][NextCache]_vars

\* calls on the persistent cache of performanceService while time passes and
\* calls on AsyncStorage fail
InitPersist ==
  QueueAtRest /\ LedgerUntouched /\ DayAtRest /\ MemoryAtRest /\ StoreInUse /\ OthersAtRest

\* a fresh install on which the panel was opened once; then k calls of addXP(10),
\* one after the other, and either nothing more or one more visit of the panel
\* that unlocked nothing and loaded the XP document
HistoryAtStart(k, loaded) ==
  /\ xpDoc = StoredAfter(k).xp
  /\ xpHistory = StoredAfter(k).xpHistory
  /\ appendLog = StoredAfter(k).log
  /\ histCalls = 0
  /\ compHistory = IF loaded THEN StoredAfter(k).xpHistory ELSE <<>>
  /\ comp = IF loaded THEN [FreshComp EXCEPT !.xp = ReadXP(StoredAfter(k).xp)]
            ELSE FreshComp
  /\ questsDoc = Prior(0).quests
  /\ badgesDoc = Prior(0).badges
  /\ chain = [c \in ChainIds |-> IdleChain]
  /\ nextChain = 1
  /\ shows = 0
  /\ callLog = <<>>
  /\ xpExpected = ReadXP(StoredAfter(k).xp).totalXP
  /\ questAwards = [id \in QuestKeys |-> 0]
  /\ xpRuled = IF k = 0 THEN {"rising", "flat"} ELSE RulesObeyed(StoredAfter(k).xp[1])
  /\ badgeAwards = [id \in BadgeIds |-> 0]

InitHistory ==
  QueueAtRest /\ DayAtRest /\ MemoryAtRest /\ StoreAtRest /\ SinkAtRest /\ RetryAtRest
    /\ LoadsAtRest
    /\ \E k \in PriorCalls, loaded \in BOOLEAN : HistoryAtStart(k, loaded)

SpecHistory == InitHistory /\ [][NextHistory]_vars

\* fetches of the query client that fail or succeed, and retryDelay called with
\* any attemptIndex
InitRetry ==
  QueueAtRest /\ LedgerUntouched /\ DayAtRest /\ MemoryAtRest /\ StoreAtRest
    /\ HistoryAtRest /\ SinkAtRest /\ FetchesAtRest /\ LoadsAtRest
    /\ attemptIndex \in 0..MaxAttemptIndex

SpecRetry == InitRetry /\ [][NextRetry]_vars

\* components that use usePerformanceCache mount, one after the other or at once,
\* while time passes and the memory cache may be cleared
InitLoads == QueueAtRest /\ LedgerUntouched /\ DayAtRest /\ CacheAtRest

SpecLoads == InitLoads /\ [][NextLoads]_vars

\* calls on the notification sink
InitSink == QueueAtRest /\ LedgerUntouched /\ DayAtRest /\ CacheAtRest

SpecSink == InitSink /\ [][NextSink]_vars

\* correct answers given one after the other while a screen may subscribe to the
\* notification sink
InitNoticed == QueueAtRest /\ DayAtRest /\ CacheAtRest /\ LedgerAfter(0)

SpecNoticed == InitNoticed /\ [][NextNoticed]_vars

SpecPersist == InitPersist /\ [][NextPersist]_vars

(* ------------------------- claims on the queue ------------------------- *)
\* a call that has read the queue and has not yet written the reduced queue back
InPass(p) == pass[p].pc \in {"read", "process"}

\* C1: no two flush passes run concurrently: at most one syncWhenOnline call is
\* between reading the queue and writing the reduced queue back.
C1_SingleFlight == Cardinality({p \in PassIds : InPass(p)}) <= 1

\* item a is still to be replayed by a pass that holds it in the queue it read
AheadInPass(a) ==
  \E p \in PassIds :
    /\ pass[p].pc \in {"read", "process"}
    /\ \E k \in (pass[p].idx + 1)..Len(pass[p].queue) : pass[p].queue[k].id = a

\* C2: every action whose queueAction call completed is afterwards still in the
\* persisted queue or was itself passed to processQueueItem (or is about to be, by
\* a pass that read it); none is silently overwritten.
C2_NoActionLost ==
  \A a \in accepted : a \in Ids(storedQueue) \/ a \in replayed \/ AheadInPass(a)

C4_ReconnectSchedulesFlush ==
  [][(~net /\ net' /\ storedQueue # <<>>) =>
       \E p \in PassIds : /\ pass'[p].pc = "timer"
                          /\ pass'[p].src = "reconnect"
                          /\ pass[p].pc = "free"]_vars

\* C5: within one pass the actions are replayed in the order of the queue the pass
\* read, one at a time (item k+1 starts only when item k has resolved), whatever
\* their types; the retained actions keep their relative order, and they are what
\* the pass writes back.
C5_ReplayInQueueOrder ==
  \A p \in PassIds :
    pass[p].pc \in {"process", "written"} =>
      /\ Len(pass[p].log) <= Len(pass[p].queue)
      /\ \A k \in 1..Len(pass[p].log) : pass[p].log[k].id = pass[p].queue[k].id
      /\ pass[p].pc = "process" => pass[p].idx = Len(pass[p].log) + 1
      /\ pass[p].pc # "process" => Len(pass[p].log) = Len(pass[p].queue)
      /\ IsSubSeq(IdSeq(pass[p].remaining), IdSeq(pass[p].queue))
      /\ \A k \in 1..Len(pass[p].remaining) :
           \E j \in 1..Len(pass[p].log) :
             pass[p].log[j].id = pass[p].remaining[k].id /\ ~pass[p].log[j].ok

\* a pass over two actions of different types has replayed both, the older one
\* first; the older one failed and is what the pass has written back
C5_Witness ==
  \E p \in PassIds :
    /\ pass[p].pc = "written"
    /\ Len(pass[p].queue) = 2
    /\ pass[p].queue[1].type # pass[p].queue[2].type
    /\ Len(pass[p].log) = 2
    /\ ~pass[p].log[1].ok /\ pass[p].log[2].ok
    /\ IdSeq(pass[p].remaining) = <<pass[p].queue[1].id>>
    /\ storedQueue = pass[p].remaining

\* C6: the last-sync time (the persisted key, the hook state) changes only in a
\* step of a pass in which at least one action was replayed successfully.
C6_LastSyncOnlyOnSuccess ==
  [][(storedLastSync' # storedLastSync
        \/ \E i \in Inst : hook'[i].lastSyncTime # hook[i].lastSyncTime) =>
       \E p \in PassIds :
         /\ pass'[p] # pass[p]
         /\ pass[p].inst \in Inst
         /\ \E k \in 1..Len(pass[p].log) : pass[p].log[k].ok]_vars

\* one pass has synced an action and set the last-sync time; a later pass has
\* replayed its actions, all failed, and written the queue back
C6_Witness ==
  \E p \in PassIds :
    /\ pass[p].pc = "written"
    /\ pass[p].log # <<>>
    /\ \A k \in 1..Len(pass[p].log) : ~pass[p].log[k].ok
    /\ storedLastSync # 0
    /\ hook[pass[p].inst].lastSyncTime = storedLastSync

(* ------------------------- claims on the ledger ------------------------ *)
FirstCallIs(amount) == callLog # <<>> /\ callLog[1] = [before |-> <<>>, amount |-> amount]

\* C7 as stated: from the fresh document one addXP(250) yields level 3,
\* currentLevelXP 50 and totalXP 250, and one call crosses every level threshold
\* its amount reaches.
C7_RollOverAsStated ==
  /\ (Len(callLog) = 1 /\ FirstCallIs(250)) =>
       /\ xpDoc[1].level = 3
       /\ xpDoc[1].currentLevelXP = 50
       /\ xpDoc[1].totalXP = 250
  /\ callLog # <<>> => xpDoc[1].currentLevelXP < xpDoc[1].nextLevelXP

\* C7 (amended): from the fresh document one addXP(250) yields level 2,
\* currentLevelXP 150, nextLevelXP 200 and totalXP 250 (level 1 costs 100, level 2
\* costs 200); one addXP(300) crosses two thresholds (level 3, currentLevelXP 0);
\* after every call no threshold is left uncrossed: 0 <= currentLevelXP <
\* nextLevelXP = 100 * level, and totalXP is currentLevelXP plus the cost of the
\* levels below.
C7_RollOver ==
  /\ (Len(callLog) = 1 /\ FirstCallIs(250)) =>
       xpDoc[1] = [totalXP |-> 250, level |-> 2, currentLevelXP |-> 150, nextLevelXP |-> 200]
  /\ (Len(callLog) = 1 /\ FirstCallIs(300)) =>
       xpDoc[1] = [totalXP |-> 300, level |-> 3, currentLevelXP |-> 0, nextLevelXP |-> 300]
  /\ callLog # <<>> => Obeys(xpDoc[1], "rising")

\* addXP(250) has run on the fresh document
C7_Witness == Len(callLog) = 1 /\ FirstCallIs(250) /\ xpDoc[1].totalXP = 250

\* C8: every XP document written so far, by addXP or by the panel's awardXP, is the
\* decomposition of its totalXP under one and the same level-cost function.
C8_OneLevelCostFunction == xpRuled # {}

ChainsAtRest == \A c \in ChainIds : chain[c].pc \in {"idle", "done"}

\* C9: when every award has completed, the persisted totalXP is the previous total
\* plus the sum of all amounts awarded.
C9_NoLostXP == ChainsAtRest => ReadXP(xpDoc).totalXP = xpExpected

\* C10: an updateQuestProgress call leaves every quest it read as completed as it
\* is (in its loop and in what it writes), and over all updateQuestProgress calls
\* the reward of a quest is awarded at most once.
C10_QuestCompletedOnce ==
  [][/\ \A id \in QuestKeys : questAwards'[id] <= 1
     /\ \A c \in ChainIds :
          (chain[c].pc = "loop" /\ chain'[c] # chain[c]) =>
            LET after == IF chain'[c].pc = "xp" THEN chain'[c].quests
                         ELSE ReadQuests(questsDoc')
            IN \A k \in 1..Len(chain[c].quests) :
                 chain[c].quests[k].isCompleted => after[k] = chain[c].quests[k]]_vars

\* C11: every persisted quest has 0 <= progress <= target, and from one persisted
\* quest list to the next every quest is still there (not replaced by a new
\* zero-progress copy) with a progress that is not lower.
C11_QuestProgressKept ==
  [][LET old == ReadQuests(questsDoc)
         new == ReadQuests(questsDoc')
     IN /\ \A j \in 1..Len(new) : 0 <= new[j].progress /\ new[j].progress <= new[j].target
        /\ \A k \in 1..Len(old) :
             \E j \in 1..Len(new) :
               new[j].id = old[k].id /\ new[j].progress >= old[k].progress]_vars

(* ------------------------- claims on the badges ------------------------- *)
\* C13: over checkBadges of questManager and checkBadgeProgress of the panel, no
\* badge is unlocked (its unlockedAt set, its xpValue awarded) more than once.
C13_BadgeUnlockedOnce == \A id \in BadgeIds : badgeAwards[id] <= 1

(* ------------------------ claims on the daily stats --------------------- *)
\* no id occurs twice in the sequence of ids
NoRepeat(ids) == \A i, j \in 1..Len(ids) : ids[i] = ids[j] => i = j

\* C12: when checkBadges runs twice in succession against the same daily stats,
\* the first run unlocks every eligible badge of the stored list, each once, and
\* adds its XP; the second run returns an empty list and leaves the XP document
\* and the badges document (every unlocked flag) as the first run left them.
C12_CheckBadgesIdempotent ==
  LET first == CheckBadgesRun(xpDoc, badgesDoc, statsDoc)
      second == CheckBadgesRun(first.xp, first.badges, statsDoc)
      before == ReadBadges(badgesDoc)
      after == ReadBadges(first.badges)
  IN /\ second.unlocked = <<>>
     /\ second.xp = first.xp
     /\ second.badges = first.badges
     /\ NoRepeat(first.unlocked)
     /\ statsDoc # <<>> =>
          /\ Len(after) = Len(before)
          /\ \A k \in 1..Len(before) :
               /\ after[k].unlocked =
                    (before[k].unlocked \/ ManagerShouldUnlock(before[k].id, statsDoc[1]))
               /\ (after[k].unlocked /\ ~before[k].unlocked) <=>
                    \E j \in 1..Len(first.unlocked) : first.unlocked[j] = before[k].id
          /\ ReadXP(first.xp).totalXP =
               ReadXP(xpDoc).totalXP + SumXP(UnlockedNow(before, after))

\* the checkBadges call of trackWordLearned has just unlocked a badge, and a
\* badge is still locked
C12_Witness ==
  /\ lastCall.name = "trackWordLearned"
  /\ lastCall.unlocked # <<>>
  /\ \E k \in 1..Len(ReadBadges(badgesDoc)) : ~ReadBadges(badgesDoc)[k].unlocked

\* badge `id` is in the stored badges, unlocked
StoredUnlocked(id) ==
  \E k \in 1..Len(ReadBadges(badgesDoc)) :
    ReadBadges(badgesDoc)[k].id = id /\ ReadBadges(badgesDoc)[k].unlocked

\* the XP value of stored badge `id`
StoredValue(id) ==
  LET b == ReadBadges(badgesDoc)
  IN b[CHOOSE k \in 1..Len(b) : b[k].id = id].xpValue

\* C14: after ten correct answers in a row on the day the run starts, from no
\* daily stats, wordsLearned, correctAnswers and totalAnswers are 10, the accuracy
\* badge and the Fast Learner badge are unlocked, each once, and totalXP holds
\* every amount awarded, which includes 10 XP per answer and the two badges' values.
C14_TenCorrectAnswers ==
  (answers = 10 /\ today = 0 /\ lastCall.name = "trackStudyTime") =>
    /\ statsDoc # <<>>
    /\ statsDoc[1].wordsLearned = 10
    /\ statsDoc[1].correctAnswers = 10
    /\ statsDoc[1].totalAnswers = 10
    /\ StoredUnlocked("accuracy_master") /\ badgeAwards["accuracy_master"] = 1
    /\ StoredUnlocked("fast_learner") /\ badgeAwards["fast_learner"] = 1
    /\ ReadXP(xpDoc).totalXP = xpExpected
    /\ xpExpected >= 10 * 10 + StoredValue("accuracy_master") + StoredValue("fast_learner")

\* C15: updateDailyStats(stat, v) persists one record dated today; when the stored
\* record carries another date, the named counter is v and every other counter
\* is 0; when it carries today's date, v is added to the named counter and the
\* other counters are unchanged.  There is never more than one DailyStats record.
C15_DailyRollover ==
  /\ Len(statsDoc) <= 1
  /\ \A stat \in StatNames, v \in 1..MaxValue :
       LET new == UpdateDailyStats(statsDoc, today, stat, v) IN
         /\ new.date = today
         /\ statsDoc # <<>> =>
              IF statsDoc[1].date # today
              THEN /\ new[stat] = v
                   /\ \A other \in StatNames \ {stat} : new[other] = 0
              ELSE /\ new[stat] = statsDoc[1][stat] + v
                   /\ \A other \in StatNames \ {stat} : new[other] = statsDoc[1][other]

\* the first update of the new day has replaced a record of the day before that
\* had counted an answer
C15_Witness ==
  /\ answers >= 1
  /\ lastCall.name = "trackWordLearned"
  /\ statsDoc # <<>>
  /\ statsDoc[1] = [FreshStats(today) EXCEPT !.wordsLearned = 1]
  /\ today = 1

(* ------------------------ claims on the memory cache -------------------- *)
\* C16 as stated: getMemoryCache(key) returns the value of the latest
\* setMemoryCache of the key while now - timestamp <= ttl, and after that null,
\* with the entry gone from the cache.
C16_TTLAsStated ==
  lastOp.op = "get" =>
    LET e == lastSet[lastOp.key] IN
      e.state # "never" =>
        IF lastOp.at - e.timestamp <= e.ttl
        THEN lastOp.data = e.data
        ELSE lastOp.data = Null /\ lastOp.key \notin KeysOf(memoryCache)

\* C16: unless the entry was evicted at capacity or the cache was cleared since,
\* getMemoryCache(key) returns the value of the latest setMemoryCache of the key
\* while now - timestamp <= ttl (age = ttl included), and after that null, with
\* the entry gone from the cache.
C16_TTL ==
  lastOp.op = "get" =>
    LET e == lastSet[lastOp.key] IN
      e.state \in {"set", "expired"} =>
        IF lastOp.at - e.timestamp <= e.ttl
        THEN lastOp.data = e.data
        ELSE lastOp.data = Null /\ lastOp.key \notin KeysOf(memoryCache)

\* a get at the boundary: the entry is as old as its ttl, which is not 0, and its
\* value is returned
C16_Witness ==
  /\ lastOp.op = "get"
  /\ lastOp.data # Null
  /\ lastSet[lastOp.key].ttl > 0
  /\ lastOp.at - lastSet[lastOp.key].timestamp = lastSet[lastOp.key].ttl

\* C17: setMemoryCache of a key that is not in the cache, when the cache holds
\* maxMemoryCacheSize entries, removes the entry inserted first and no other
\* (whatever was read before, and whatever has expired), and appends the new one.
C17_FIFOEviction ==
  [][(/\ lastOp'.n = lastOp.n + 1
      /\ lastOp'.op = "set"
      /\ Len(memoryCache) = maxMemoryCacheSize
      /\ lastOp'.key \notin KeysOf(memoryCache))
     => memoryCache' = Append(Tail(memoryCache),
                              [key |-> lastOp'.key, data |-> lastOp'.data,
                               timestamp |-> now, ttl |-> lastSet'[lastOp'.key].ttl])]_vars

(* ---------------------- claims on the persistent cache ------------------ *)
\* C18: no call on the persistent cache throws; getPersistentCache returns null
\* when a call on the store threw or the stored text is not JSON;
\* clearPersistentCache leaves the keys of the quests, badges, XP, daily stats and
\* offline queue as they were and, when the store did not fail, removes every
\* cache_ key.
C18_PersistentCacheDegrades ==
  /\ ~pLast.threw
  /\ (pLast.op = "get" /\ (pLast.fault \/ pLast.malformed)) => pLast.data = Null
  /\ pLast.op = "clear" =>
       /\ \A k \in OtherKeys : store[k] = pLast.before[k]
       /\ ~pLast.fault => \A name \in CacheNames : store[CacheKey(name)] = Absent

\* clearPersistentCache, the second call of the run, has removed a cache entry
\* while the other documents are stored
C18_Witness ==
  /\ pLast.op = "clear"
  /\ pLast.n = 2
  /\ ~pLast.fault
  /\ \E name \in CacheNames : pLast.before[CacheKey(name)] # Absent
  /\ \A k \in OtherKeys : store[k] = Document

(* --------------------- claims on failures of the store ------------------ *)
\* the rewards whose flag is stored: completed quests and unlocked badges
StoredRewards ==
  SumReward(SelectSeq(ReadQuests(questsDoc), LAMBDA q : q.isCompleted))
    + SumXP(SelectSeq(ReadBadges(badgesDoc), LAMBDA b : b.unlocked))

\* trackCorrectAnswer calls made so far
CorrectCalls == answers + (IF lastCall.name = "trackCorrectAnswer" THEN 1 ELSE 0)

AllJson == IsJson(xpDoc) /\ IsJson(questsDoc) /\ IsJson(badgesDoc) /\ IsJson(statsDoc)

\* C19: an update whose write failed has not happened: the stored XP holds no
\* reward whose completion flag (quest isCompleted, badge unlocked) is not stored,
\* that is, no more than 10 XP per trackCorrectAnswer call and the rewards of the
\* stored completed quests and unlocked badges.
C19_FailedUpdateNotHappened ==
  AllJson => ReadXP(xpDoc).totalXP <= 10 * CorrectCalls + StoredRewards

\* C20: after an addXP(10) whose write did not fail (that of trackCorrectAnswer),
\* the stored XP document is a valid one that holds the amount, whatever was
\* stored before.
C20_MalformedRecovered ==
  (lastCall.name = "trackCorrectAnswer" /\ ~lastCall.failed) =>
    /\ xpDoc # <<>>
    /\ IsJson(xpDoc)
    /\ ReadXP(xpDoc).totalXP >= 10

(* --------------------- claims on the xpHistory ------------------------- *)
\* C21: after every write of the XP document its xpHistory holds at most 50
\* entries, they are the 50 most recently appended ones in insertion order, and
\* the 'Level Up' entries of one call precede that call's XP-gain entry.
C21_HistoryKept ==
  /\ Len(xpHistory) <= XPHistoryLimit
  /\ xpHistory = Slice(appendLog, XPHistoryLimit)
  /\ \A i, j \in 1..Len(xpHistory) :
       /\ xpHistory[i].call = xpHistory[j].call
       /\ xpHistory[i].source = "Level Up"
       /\ xpHistory[j].source # "Level Up"
       => i < j

(* ------------------ claims on the notification sink -------------------- *)
\* the notifications of one type handed to the sink so far
NotesOf(type) == SelectSeq(shown, LAMBDA n : n.note.type = type)

RECURSIVE SumOver(_, _)
SumOver(f, S) ==
  IF S = {} THEN 0 ELSE LET x == CHOOSE x \in S : TRUE IN f[x] + SumOver(f, S \ {x})

\* C22: every quest completion by updateQuestProgress and every badge unlock by
\* checkBadges hands exactly one quest-completed / badge-unlocked notification to
\* the notification sink.
C22_RewardsNoticed ==
  /\ Len(NotesOf("quest")) = SumOver(questAwards, QuestKeys)
  /\ Len(NotesOf("badge")) = SumOver(badgeAwards, BadgeIds)

\* the callback registered last when the n-th showNotification call was made
LatestAt(n) == IF shown[n].regs = 0 THEN NoCallback ELSE registered[shown[n].regs]

\* the invocations that the calls 1..n of showNotification are to make
RECURSIVE Due(_)
Due(n) ==
  IF n = 0 THEN <<>>
  ELSE IF LatestAt(n) = NoCallback THEN Due(n - 1)
  ELSE Append(Due(n - 1), [callback |-> LatestAt(n), note |-> shown[n].note])

\* C23: the sink has one subscriber, the callback set last; each showNotification
\* call invokes it exactly once with the given arguments, and a call made while
\* no callback is set invokes nothing, then or later.
C23_SingleSubscriber ==
  /\ callback = (IF registered = <<>> THEN NoCallback ELSE registered[Len(registered)])
  /\ received = Due(Len(shown))

\* a callback has replaced another, and calls were made before the first was set,
\* under the first and under the second
C23_Witness ==
  /\ Len(registered) = 2
  /\ registered[1] # registered[2]
  /\ Len(shown) = 3
  /\ shown[1].regs = 0
  /\ shown[2].regs = 1
  /\ shown[3].regs = 2

(* -------------------- claims on the query client ----------------------- *)
\* C24: the delay before retry attempt i is min(1000 * 2^i, 30000) ms: it starts
\* at 1000, doubles per attempt up to the cap, never decreases and never exceeds
\* 30000; a failing query is retried at most 3 times, a failing mutation at most
\* 2 times, and then the failure is surfaced.
C24_Backoff ==
  /\ delayFor # <<>> =>
       /\ delayFor[1] = Min(1000 * 2^attemptIndex, 30000)
       /\ attemptIndex = 0 => delayFor[1] = 1000
       /\ 2 * delayFor[1] <= 30000 => delayFor[2] = 2 * delayFor[1]
       /\ delayFor[1] <= delayFor[2]
       /\ delayFor[2] <= 30000
  /\ \A q \in Fetches :
       /\ fetches[q].failureCount <= (IF fetches[q].kind = "query" THEN 3 ELSE 2)
       /\ fetches[q].status = "error" =>
            fetches[q].failureCount = (IF fetches[q].kind = "query" THEN 3 ELSE 2)
       /\ fetches[q].kind = "query" =>
            fetches[q].waits = [i \in 1..fetches[q].failureCount |->
                                  Min(1000 * 2^(i - 1), 30000)]

\* the cap is reached, a query has failed for good after its third retry and a
\* mutation after its second
C24_Witness ==
  /\ attemptIndex >= 5
  /\ delayFor = <<30000, 30000>>
  /\ \E q \in Fetches : fetches[q] = [kind |-> "query", status |-> "error",
                                       failureCount |-> 3, waits |-> <<1000, 2000, 4000>>]
  /\ \E q \in Fetches : fetches[q].kind = "mutation" /\ fetches[q].status = "error"
                          /\ fetches[q].failureCount = 2

(* ----------------- claims on the queue, AsyncStorage failing ----------- *)
\* no queue operation but the queueAction call a is in flight
AloneInFlight(a) ==
  /\ \A b \in ActionIds \ {a} : qa[b].pc # "read"
  /\ \A p \in PassIds : pass[p].pc \notin {"read", "process", "written"}
  /\ storedQueue = qa[a].queue

\* C25: with no other queue operation in flight, a successful queueAction leaves
\* the persisted queue equal to the previous queue followed by one new item of
\* the given type with retryCount 0 and maxRetries 3, sets queueSize to the new
\* length, and schedules a flush iff the state at the call was online with no
\* flush in progress.
C25_Enqueue ==
  [][\A a \in ActionIds :
       (qa[a].pc = "read" /\ qa'[a].pc = "done" /\ AloneInFlight(a)) =>
         /\ storedQueue' = Append(storedQueue,
                                  [id |-> a, type |-> qa[a].item.type,
                                   retryCount |-> 0, maxRetries |-> 3])
         /\ hook'["screen"].queueSize = Len(storedQueue')
         /\ (pass'[a].pc = "timer") <=>
              (qa[a].snap.isOnline /\ ~qa[a].snap.syncInProgress)]_vars

\* a syncWhenOnline call between setting syncInProgress and its return
Flushing(p) == pass[p].pc \in {"read", "process", "written"}

\* C26: every flush pass that starts terminates, on every path (empty queue, all
\* succeed, some fail, a storage read or write throws), its return resets
\* syncInProgress, and syncInProgress never stays true forever.
C26_FlushTerminates ==
  /\ \A p \in PassIds : Flushing(p) ~> (pass[p].pc = "done")
  /\ \A i \in Inst : hook[i].syncInProgress ~> ~hook[i].syncInProgress
  /\ [][\A p \in PassIds :
          (Flushing(p) /\ pass'[p].pc = "done") => ~hook'[pass[p].inst].syncInProgress]_vars

\* a pass has gone through the queue and returned without the queue having been
\* written back (the write threw), and no flag is set
C26_Witness ==
  /\ \E p \in PassIds : pass[p].pc = "done"
  /\ replayed # {}
  /\ \A a \in replayed : failCount[a] = 0 /\ \E k \in 1..Len(storedQueue) : storedQueue[k].id = a
  /\ \A p \in PassIds : ~Flushing(p)
  /\ \A i \in Inst : ~hook[i].syncInProgress
  /\ storedLastSync = 0

(* --------------- more claims on the caches of performanceService ------- *)
\* C27: after any sequence of setMemoryCache, getMemoryCache, cleanupCache and
\* clearMemoryCache calls with any keys, the memory cache holds at most
\* maxMemoryCacheSize entries.
C27_CacheBounded == Len(memoryCache) <= maxMemoryCacheSize

\* C28: usePerformanceCache never serves a value older than its ttl: a value
\* fetched at time t0 and cached with ttl is not passed to setData by any load at
\* a time later than t0 + ttl.
C28_NoStaleValue ==
  \A s \in served : \A n \in 1..Len(fetched) :
    fetched[n].data = s.data => s.at <= fetched[n].at + fetched[n].ttl

(* ---------------------- claims on the returned XP ---------------------- *)
\* C29: the xpGained a track call returns equals the increase of the persisted
\* totalXP caused by that call, XP for quests completed and badges unlocked
\* during the call included, and is 0 when the XP write did not take effect.
C29_ReturnedIsGained == lastCall.xpGained = lastCall.rise

(* ------------------- claims on items without a handler ----------------- *)
\* C30: an action is counted as a successful sync only if processQueueItem has a
\* case for its type, and the last-sync time advances only in a pass that
\* replayed such an action successfully: an action whose type has no case (the
\* 'auth' actions) is never counted and never advances the last-sync time.
C30_HandledBeforeCounted ==
  /\ [][\A p \in PassIds :
          (pass[p].pc = "process" /\ pass'[p].syncedCount > pass[p].syncedCount) =>
            LoopItem(pass[p].queue, pass[p].idx).type \in HandledTypes]_vars
  /\ [][storedLastSync' # storedLastSync =>
          \E p \in PassIds :
            /\ pass'[p] # pass[p]
            /\ \E k \in 1..Len(pass[p].log) :
                 /\ pass[p].log[k].ok
                 /\ LoopItem(pass[p].queue, k).type \in HandledTypes]_vars

====
